---------------------------- MODULE Spec2Model ----------------------------
(***************************************************************************)
(* A model of src/pact/v3/pact.py: the interaction builder and its part    *)
(* resolution, the Pact aggregate, and the PactServer scope.               *)
(*                                                                         *)
(* The module holds one group of variables per object of the code, and     *)
(* these specifications:                                                   *)
(*   SpecHttp         one HttpInteraction: part resolution, header indices *)
(*   SpecQuery        its query parameter counters, next to its header     *)
(*                    counters                                             *)
(*   SpecInteraction  Pact.upon_receiving and the message interactions it  *)
(*                    returns                                              *)
(*   SpecGiven        Interaction.given and the engine's provider states   *)
(*   SpecPact         Pact.__init__ and Pact.with_specification            *)
(*   SpecServer       one PactServer: __enter__, __exit__, port,           *)
(*                    write_file                                           *)
(*   SpecServe        Pact.serve and the PactServer it returns             *)
(*   SpecTwo          two HttpInteractions of one Pact, called in turn     *)
(*   SpecChain        a chain of mutator calls, each made on what the one  *)
(*                    before returned                                      *)
(*   SpecRace         two threads in with_header on one interaction        *)
(* In each specification the variables of the groups it does not act on    *)
(* stay at their initial values.                                           *)
(*                                                                         *)
(* Conventions.  A Python Optional is a sequence of length 0 (None) or 1.  *)
(* A Python str on which the code computes (lower, upper, replace,         *)
(* startswith) is a sequence of one-character strings; a str that the code *)
(* only passes on or tests for emptiness is a TLA+ string.  Every call of  *)
(* pact.v3.ffi may raise: the parameter ok of an action is the engine's    *)
(* answer to that call.                                                    *)
(***************************************************************************)
EXTENDS Integers, Sequences, FiniteSets, TLC

---------------------------------------------------------------------------
(* Bounds of the model *)

\* with_header is called at most this many times on one interaction
MaxHeaderCalls == 3

\* the longest version string handed to with_specification
MaxVersionLen == 3

\* with_query_parameter is called at most this many times on one interaction
MaxQueryCalls == 3

\* upon_receiving registers at most this many interactions with the engine
MaxInteractions == 2

\* a PactServer is entered at most this many times
MaxEnters == 2

\* the engine writes the pact file at most this many times
MaxWrites == 2

\* at most this many HttpInteractions are built side by side
MaxBuilders == 2

\* with_header and with_query_parameter are called at most this many times
\* on the interactions built side by side, taken together
MaxBuilderCalls == 2

\* the longest chain of mutator calls
MaxChain == 2

\* each thread calls with_header at most this many times
MaxRaceCalls == 2

---------------------------------------------------------------------------
(* Python values *)

None == <<>>

Some(x) == <<x>>

\* the str "None" never occurs as an argument; this stands for a missing
\* part argument (part=None)
PartNone == "None"

REQUEST == "Request"

RESPONSE == "Response"

InteractionParts == {REQUEST, RESPONSE}

\* part arguments a caller can pass: the two literals, None, and a str that
\* is neither
PartArgs == {"Request", "Response", PartNone, "Body"}

ValueError == "ValueError"

\* the error pact.v3.ffi raises when the engine rejects a call
EngineError == "EngineError"

NoError == "ok"

\* str.lower() on one character of the model's alphabet
LowerChar(c) ==
    CASE c = "A" -> "a"
      [] c = "V" -> "v"
      [] c = "X" -> "x"
      [] c = "Y" -> "y"
      [] OTHER -> c

\* str.upper() on one character of the model's alphabet
UpperChar(c) ==
    CASE c = "a" -> "A"
      [] c = "v" -> "V"
      [] c = "x" -> "X"
      [] c = "y" -> "Y"
      [] OTHER -> c

str_lower(s) == [k \in 1..Len(s) |-> LowerChar(s[k])]

str_upper(s) == [k \in 1..Len(s) |-> UpperChar(s[k])]

\* header names a caller passes: "Xa", "xA" and "y"
HeaderNames == {<<"X", "a">>, <<"x", "A">>, <<"y">>}

\* the keys a defaultdict of header counters can hold
HeaderKeyNames == HeaderNames \cup {str_lower(n) : n \in HeaderNames}

HeaderValue == "v"

\* the lists handed to with_headers / set_headers: an empty one, one that
\* repeats a name in two spellings, one with two different names
HeaderLists ==
    {<<>>, << <<"X", "a">>, <<"x", "A">> >>, << <<"y">>, <<"X", "a">> >>}

\* query parameter names a caller passes: the same three spellings
QueryNames == HeaderNames

\* the lists handed to with_query_parameters
QueryLists == HeaderLists

---------------------------------------------------------------------------
VARIABLES
    \* HttpInteraction
    interaction_part,   \* self.__interaction_part
    request_indices,    \* self._request_indices
    op,                 \* the builder method called last, with its part argument
    ffi_calls,          \* the pact.v3.ffi calls that method made, in order
    raised,             \* what that method raised
    response_status,    \* the status the engine holds for the response
    header_passed,      \* per (part, lowercased name): the indices passed to
                        \* ffi.with_header_v2 so far, in call order
    early_response_headers, \* the lowercased names that with_header sent with
                        \* part="Response" while the current part was Request
    parameter_indices,  \* self._parameter_indices
    param_passed,       \* per parameter name: the indices passed to
                        \* ffi.with_query_parameter_v2 so far, in call order
    \* Pact.upon_receiving and the interaction it returned
    interactions,       \* the interactions the engine holds for the Pact: the
                        \* pact.v3.ffi call that made each, in order
    interaction_class,  \* the class of the interaction returned last, None
                        \* while none was returned
    message_part,       \* its self.__interaction_part, None for a class
                        \* without that field
    message_op,         \* the method called last, with its arguments
    message_calls,      \* the pact.v3.ffi calls that method made
    message_raised,     \* what it raised
    \* Interaction.given
    provider_states,    \* the provider states the engine holds, in order
    given_op,           \* the arguments of the last call of given
    given_calls,        \* the pact.v3.ffi calls it made
    given_raised,       \* what it raised
    \* Pact
    pact_handle,        \* self._handle, None while no Pact is constructed
    consumer,           \* self._consumer
    provider,           \* self._provider
    specification,      \* the specification version the engine holds
    pact_op,            \* the Pact method called last, with its arguments
    pact_calls,         \* the pact.v3.ffi calls it made
    pact_raised,        \* what it raised
    \* PactServer
    server_handle,      \* self._handle
    server_host,        \* self._host
    server_port,        \* self._port, the port asked for
    server_transport,   \* self._transport
    scope,              \* "Inert" until an __enter__ has returned, "Active"
                        \* from a returned __enter__ to the next __exit__,
                        \* "Released" after that __exit__
    body_exc,           \* the exception raised in the with block, on its way
                        \* to __exit__
    directory_state,    \* what the file system holds at the target path
    servers_started,    \* mock servers the engine has started
    servers_released,   \* handles a PactServer has let go of: by __exit__, or
                        \* by an __enter__ that replaces the handle it holds
    pact_writes,        \* pact files the engine has written
    server_op,          \* the PactServer method called last
    server_calls,       \* the pact.v3.ffi calls that method made
    server_raised,      \* what reached the caller from it
    \* the HttpInteractions of one Pact
    builders,           \* the interactions upon_receiving has returned, each
                        \* with its __interaction_part, _request_indices
                        \* and _parameter_indices
    builder_op,         \* the method called last, and on which interaction
    builder_calls,      \* the pact.v3.ffi calls that method made
    builder_raised,     \* what that method raised
    \* a chain of calls interaction.a(..).b(..)
    chain_self,         \* the object the chain has evaluated to so far
    chain_log,          \* the calls of the chain: method, receiver, result
    \* two threads in with_header(name, value) for one name and part
    race_pc,            \* the line each thread is about to execute
    race_index,         \* each thread's local `index` (line 542)
    race_loaded,        \* the counter value each thread has loaded for the
                        \* `+= 1` of line 543
    race_counter,       \* self._request_indices[(part, name_lower)]
    race_started,       \* with_header calls each thread has begun
    race_passed         \* the indices passed to the engine, in call order

http_vars == <<interaction_part, request_indices, op, ffi_calls, raised,
               response_status, header_passed,
                       early_response_headers>>

query_vars == <<parameter_indices, param_passed>>

message_vars == <<interactions, interaction_class, message_part, message_op,
                  message_calls, message_raised>>

given_vars == <<provider_states, given_op, given_calls, given_raised>>

pact_vars == <<pact_handle, consumer, provider, specification, pact_op,
               pact_calls, pact_raised>>

server_vars == <<server_handle, server_host, server_port, server_transport,
                 scope, body_exc, directory_state, servers_started,
                 servers_released, pact_writes, server_op, server_calls,
                 server_raised>>

builder_vars == <<builders, builder_op, builder_calls, builder_raised>>

chain_vars == <<chain_self, chain_log>>

race_vars == <<race_pc, race_index, race_loaded, race_counter, race_started,
               race_passed>>

vars == <<http_vars, query_vars, message_vars, given_vars, pact_vars,
          server_vars, builder_vars, chain_vars, race_vars>>

\* the variables of SpecTwo, SpecChain and SpecRace
side_vars == <<builder_vars, chain_vars, race_vars>>

\* a step on one object leaves the others alone
HttpFrame ==
    UNCHANGED <<query_vars, message_vars, given_vars, pact_vars, server_vars,
                side_vars>>

QueryFrame ==
    UNCHANGED <<message_vars, given_vars, pact_vars, server_vars, side_vars>>

MessageFrame ==
    UNCHANGED <<http_vars, query_vars, given_vars, pact_vars, server_vars,
                side_vars>>

GivenFrame ==
    UNCHANGED <<http_vars, query_vars, message_vars, pact_vars, server_vars,
                side_vars>>

PactFrame ==
    UNCHANGED <<http_vars, query_vars, message_vars, given_vars, server_vars,
                side_vars>>

ServerFrame ==
    UNCHANGED <<http_vars, query_vars, message_vars, given_vars, pact_vars,
                side_vars>>

\* the objects of the specifications above
main_vars == <<http_vars, query_vars, message_vars, given_vars, pact_vars,
               server_vars>>

BuilderFrame == UNCHANGED <<main_vars, chain_vars, race_vars>>

ChainFrame == UNCHANGED <<main_vars, builder_vars, race_vars>>

RaceFrame == UNCHANGED <<main_vars, builder_vars, chain_vars>>

---------------------------------------------------------------------------
(* Interaction._parse_interaction_part *)

\* a resolution that forgets the current part
parse_interaction_part_request(part) ==
    IF part = "Request" THEN REQUEST
    ELSE IF part = "Response" THEN RESPONSE
    ELSE IF part = PartNone THEN REQUEST
    ELSE ValueError

\* a resolution that takes any other value for a missing part
parse_interaction_part_lenient(part) ==
    IF part = "Request" THEN REQUEST
    ELSE IF part = "Response" THEN RESPONSE
    ELSE interaction_part

parse_interaction_part(part) ==
    IF part = "Request" THEN REQUEST
    ELSE IF part = "Response" THEN RESPONSE
    ELSE IF part = PartNone THEN interaction_part
    ELSE ValueError

---------------------------------------------------------------------------
(* HttpInteraction *)

NoOp == [fn |-> "__init__", part |-> PartNone]

HttpInit ==
    /\ interaction_part = REQUEST
    /\ request_indices = [k \in InteractionParts \X HeaderKeyNames |-> 0]
    /\ op = NoOp
    /\ ffi_calls = <<>>
    /\ raised = NoError
    /\ response_status = None
    /\ header_passed = [k \in InteractionParts \X HeaderKeyNames |-> <<>>]
    /\ early_response_headers = {}
    /\ parameter_indices = [n \in QueryNames |-> 0]
    /\ param_passed = [n \in QueryNames |-> <<>>]

\* a with_header that keys its counter by the name as given
with_header_step_exact(indices, name, part_) ==
    LET index == indices[<<part_, name>>]
    IN  [indices |-> [indices EXCEPT ![<<part_, name>>] = index + 1],
         call |-> [fn |-> "with_header_v2", part |-> part_, name |-> name,
                   index |-> index, value |-> HeaderValue]]

\* lines 541-550 of with_header, on the counters `indices`: the counters
\* after the increment and the call made to the engine
with_header_step(indices, name, part_) ==
    LET name_lower == str_lower(name)
        index == indices[<<part_, name_lower>>]
    IN  [indices |-> [indices EXCEPT ![<<part_, name_lower>>] = index + 1],
         call |-> [fn |-> "with_header_v2", part |-> part_, name |-> name,
                   index |-> index, value |-> HeaderValue]]

\* a loop that reads the index of every header from the counters as they
\* were before the first call and increments them afterwards
RECURSIVE headers_loop_batch(_, _, _, _)
headers_loop_batch(indices, headers, part_, n) ==
    IF n = 0
    THEN [indices |-> indices, calls |-> <<>>]
    ELSE LET before == headers_loop_batch(indices, headers, part_, n - 1)
             key == <<part_, str_lower(headers[n])>>
         IN  [indices |-> [before.indices EXCEPT ![key] = @ + 1],
              calls |-> Append(before.calls,
                               [fn |-> "with_header_v2", part |-> part_,
                                name |-> headers[n], index |-> indices[key],
                                value |-> HeaderValue])]

\* the first n iterations of `for name, value in headers: self.with_header(..)`
RECURSIVE headers_loop(_, _, _, _)
headers_loop(indices, headers, part_, n) ==
    IF n = 0
    THEN [indices |-> indices, calls |-> <<>>]
    ELSE LET before == headers_loop(indices, headers, part_, n - 1)
             step == with_header_step(before.indices, headers[n], part_)
         IN  [indices |-> step.indices, calls |-> Append(before.calls, step.call)]

\* the indices passed to the engine, filed under (part, lowercased name)
RECURSIVE record_passed(_, _)
record_passed(passed, calls) ==
    IF calls = <<>>
    THEN passed
    ELSE LET c == Head(calls)
             key == <<c.part, str_lower(c.name)>>
         IN  record_passed([passed EXCEPT ![key] = Append(@, c.index)],
                           Tail(calls))

RECURSIVE SumOver(_, _)
SumOver(f, keys) ==
    IF keys = {}
    THEN 0
    ELSE LET k == CHOOSE x \in keys : TRUE
         IN  f[k] + SumOver(f, keys \ {k})

WithinBound(indices) == SumOver(indices, DOMAIN indices) <= MaxHeaderCalls

\* a with_header whose counters are keyed by the part argument: a call
\* without one counts under Request wherever it is sent
with_headers_body_keyed_by_argument(fn, headers, part, fail_at) ==
    LET part_ == parse_interaction_part(part)
        key_part == IF part = PartNone THEN REQUEST ELSE part_
        n == IF fail_at = 0 THEN Len(headers) ELSE fail_at
    IN  /\ op' = [fn |-> fn, part |-> part]
        /\ UNCHANGED <<interaction_part, response_status,
                       early_response_headers>>
        /\ IF headers = <<>>
           THEN /\ raised' = NoError
                /\ ffi_calls' = <<>>
                /\ UNCHANGED <<request_indices, header_passed>>
           ELSE IF part_ = ValueError
           THEN /\ raised' = ValueError
                /\ ffi_calls' = <<>>
                /\ UNCHANGED <<request_indices, header_passed>>
           ELSE LET done == headers_loop(request_indices, headers, key_part, n)
                    calls == [k \in 1..n |->
                                [done.calls[k] EXCEPT !.part = part_]]
                IN  /\ WithinBound(done.indices)
                    /\ request_indices' = done.indices
                    /\ ffi_calls' = calls
                    /\ header_passed' = record_passed(header_passed, calls)
                    /\ raised' = IF fail_at = 0 THEN NoError ELSE EngineError

\* with_headers(headers, part): fail_at = 0 when the engine accepts every
\* header, k when it rejects the k-th one
with_headers_body(fn, headers, part, fail_at) ==
    LET part_ == parse_interaction_part(part)
        n == IF fail_at = 0 THEN Len(headers) ELSE fail_at
    IN  /\ op' = [fn |-> fn, part |-> part]
        /\ UNCHANGED <<interaction_part, response_status>>
        /\ IF headers = <<>>
           THEN /\ raised' = NoError
                /\ ffi_calls' = <<>>
                /\ UNCHANGED <<request_indices, header_passed,
                       early_response_headers>>
           ELSE IF part_ = ValueError
           THEN /\ raised' = ValueError
                /\ ffi_calls' = <<>>
                /\ UNCHANGED <<request_indices, header_passed,
                       early_response_headers>>
           ELSE LET done == headers_loop(request_indices, headers, part_, n)
                IN  /\ WithinBound(done.indices)
                    /\ request_indices' = done.indices
                    /\ ffi_calls' = done.calls
                    /\ header_passed' = record_passed(header_passed, done.calls)
                    /\ early_response_headers' =
                          IF part = "Response" /\ interaction_part = REQUEST
                          THEN early_response_headers \cup
                                 {str_lower(done.calls[k].name) :
                                     k \in 1..Len(done.calls)}
                          ELSE early_response_headers
                    /\ raised' = IF fail_at = 0 THEN NoError ELSE EngineError

with_header(name, part, ok) ==
    with_headers_body("with_header", <<name>>, part, IF ok THEN 0 ELSE 1)

with_headers(headers, part, fail_at) ==
    /\ fail_at <= Len(headers)
    /\ with_headers_body("with_headers", headers, part, fail_at)

\* a set_header that takes an index from the counters as with_header does
set_headers_body_indexed(fn, headers, part, fail_at) ==
    LET part_ == parse_interaction_part(part)
        n == IF fail_at = 0 THEN Len(headers) ELSE fail_at
    IN  /\ op' = [fn |-> fn, part |-> part]
        /\ UNCHANGED <<interaction_part, response_status, header_passed,
                       early_response_headers>>
        /\ IF headers = <<>>
           THEN /\ raised' = NoError
                /\ ffi_calls' = <<>>
                /\ UNCHANGED request_indices
           ELSE IF part_ = ValueError
           THEN /\ raised' = ValueError
                /\ ffi_calls' = <<>>
                /\ UNCHANGED request_indices
           ELSE LET done == headers_loop(request_indices, headers, part_, n)
                IN  /\ WithinBound(done.indices)
                    /\ request_indices' = done.indices
                    /\ ffi_calls' = [k \in 1..n |->
                                       [done.calls[k] EXCEPT !.fn = "set_header"]]
                    /\ raised' = IF fail_at = 0 THEN NoError ELSE EngineError

\* set_header(name, value, part) and set_headers(headers, part): lines
\* 635-641 and 671-675
set_headers_body(fn, headers, part, fail_at) ==
    LET part_ == parse_interaction_part(part)
        n == IF fail_at = 0 THEN Len(headers) ELSE fail_at
    IN  /\ op' = [fn |-> fn, part |-> part]
        /\ UNCHANGED <<interaction_part, response_status, request_indices,
                       header_passed,
                       early_response_headers>>
        /\ IF headers = <<>>
           THEN /\ raised' = NoError
                /\ ffi_calls' = <<>>
           ELSE IF part_ = ValueError
           THEN /\ raised' = ValueError
                /\ ffi_calls' = <<>>
           ELSE /\ ffi_calls' = [k \in 1..n |->
                                   [fn |-> "set_header", part |-> part_,
                                    name |-> headers[k], value |-> HeaderValue]]
                /\ raised' = IF fail_at = 0 THEN NoError ELSE EngineError

set_header(name, part, ok) ==
    set_headers_body("set_header", <<name>>, part, IF ok THEN 0 ELSE 1)

set_headers(headers, part, fail_at) ==
    /\ fail_at <= Len(headers)
    /\ set_headers_body("set_headers", headers, part, fail_at)

\* the mutators of Interaction that take a part and make one engine call
\* with it: with_body, with_binary_file, with_multipart_file,
\* with_plugin_contents
part_call(fn, ffi_fn, part, ok) ==
    LET part_ == parse_interaction_part(part)
    IN  /\ op' = [fn |-> fn, part |-> part]
        /\ UNCHANGED <<interaction_part, response_status, request_indices,
                       header_passed,
                       early_response_headers>>
        /\ IF part_ = ValueError
           THEN /\ raised' = ValueError
                /\ ffi_calls' = <<>>
           ELSE /\ ffi_calls' = <<[fn |-> ffi_fn, part |-> part_]>>
                /\ raised' = IF ok THEN NoError ELSE EngineError

with_body(part, ok) == part_call("with_body", "with_body", part, ok)

with_binary_file(part, ok) ==
    part_call("with_binary_file", "with_binary_file", part, ok)

with_multipart_file(part, ok) ==
    part_call("with_multipart_file", "with_multipart_file_v2", part, ok)

with_plugin_contents(part, ok) ==
    part_call("with_plugin_contents", "interaction_contents", part, ok)

\* the mutators of HttpInteraction and Interaction that take no part and
\* make one engine call: with_request (line 442) and test_name (line 340)
plain_call(fn, ffi_fn, ok) ==
    /\ op' = [fn |-> fn, part |-> PartNone]
    /\ ffi_calls' = <<[fn |-> ffi_fn]>>
    /\ raised' = IF ok THEN NoError ELSE EngineError
    /\ UNCHANGED <<interaction_part, response_status, request_indices,
                   header_passed, early_response_headers>>

with_request(ok) == plain_call("with_request", "with_request", ok)

test_name(ok) == plain_call("test_name", "interaction_test_name", ok)

Statuses == {200}

\* a will_respond_with that switches the current part to the other one
will_respond_with_toggles(status, ok) ==
    /\ op' = [fn |-> "will_respond_with", part |-> PartNone]
    /\ ffi_calls' = <<[fn |-> "response_status", status |-> status]>>
    /\ UNCHANGED <<request_indices, header_passed, early_response_headers>>
    /\ IF ok
       THEN /\ response_status' = Some(status)
            /\ interaction_part' =
                  IF interaction_part = REQUEST THEN RESPONSE ELSE REQUEST
            /\ raised' = NoError
       ELSE /\ raised' = EngineError
            /\ UNCHANGED <<response_status, interaction_part>>

\* will_respond_with(status): the engine call of line 783 comes first, the
\* assignment of line 784 only when it returned
will_respond_with(status, ok) ==
    /\ op' = [fn |-> "will_respond_with", part |-> PartNone]
    /\ ffi_calls' = <<[fn |-> "response_status", status |-> status]>>
    /\ UNCHANGED <<request_indices, header_passed,
                       early_response_headers>>
    /\ IF ok
       THEN /\ response_status' = Some(status)
            /\ interaction_part' = RESPONSE
            /\ raised' = NoError
       ELSE /\ raised' = EngineError
            /\ UNCHANGED <<response_status, interaction_part>>

HttpNext ==
    \/ \E name \in HeaderNames, part \in PartArgs, ok \in BOOLEAN :
          with_header(name, part, ok) /\ HttpFrame
    \/ \E headers \in HeaderLists, part \in PartArgs :
          \E fail_at \in 0..Len(headers) : with_headers(headers, part, fail_at) /\ HttpFrame
    \/ \E name \in HeaderNames, part \in PartArgs, ok \in BOOLEAN :
          set_header(name, part, ok) /\ HttpFrame
    \/ \E headers \in HeaderLists, part \in PartArgs :
          \E fail_at \in 0..Len(headers) : set_headers(headers, part, fail_at) /\ HttpFrame
    \/ \E part \in PartArgs, ok \in BOOLEAN : with_body(part, ok) /\ HttpFrame
    \/ \E part \in PartArgs, ok \in BOOLEAN : with_binary_file(part, ok) /\ HttpFrame
    \/ \E part \in PartArgs, ok \in BOOLEAN : with_multipart_file(part, ok) /\ HttpFrame
    \/ \E part \in PartArgs, ok \in BOOLEAN : with_plugin_contents(part, ok) /\ HttpFrame
    \/ \E status \in Statuses, ok \in BOOLEAN : will_respond_with(status, ok) /\ HttpFrame
    \/ \E ok \in BOOLEAN : with_request(ok) /\ HttpFrame
    \/ \E ok \in BOOLEAN : test_name(ok) /\ HttpFrame

---------------------------------------------------------------------------
(* HttpInteraction: query parameters *)

\* a with_query_parameter that reads the counter after the increment
with_query_parameter_step_after(indices, name) ==
    LET index == indices[name] + 1
    IN  [indices |-> [indices EXCEPT ![name] = index],
         call |-> [fn |-> "with_query_parameter_v2", name |-> name,
                   index |-> index, value |-> HeaderValue]]

\* a with_query_parameter that counts the spellings of a name together
with_query_parameter_step_caseless(indices, name) ==
    LET key == CHOOSE n \in DOMAIN indices : str_lower(n) = str_lower(name)
        index == indices[key]
    IN  [indices |-> [indices EXCEPT ![key] = index + 1],
         call |-> [fn |-> "with_query_parameter_v2", name |-> name,
                   index |-> index, value |-> HeaderValue]]

\* a with_query_parameter that resolves the current part and passes it on
with_query_parameter_step_with_part(indices, name) ==
    LET index == indices[name]
    IN  [indices |-> [indices EXCEPT ![name] = index + 1],
         call |-> [fn |-> "with_query_parameter_v2", part |-> interaction_part,
                   name |-> name, index |-> index, value |-> HeaderValue]]

\* lines 737-744 of with_query_parameter, on the counters `indices`: the
\* counters after the increment and the call made to the engine
with_query_parameter_step(indices, name) ==
    LET index == indices[name]
    IN  [indices |-> [indices EXCEPT ![name] = index + 1],
         call |-> [fn |-> "with_query_parameter_v2", name |-> name,
                   index |-> index, value |-> HeaderValue]]

\* the first n iterations of
\* `for name, value in parameters: self.with_query_parameter(name, value)`
RECURSIVE parameters_loop(_, _, _)
parameters_loop(indices, parameters, n) ==
    IF n = 0
    THEN [indices |-> indices, calls |-> <<>>]
    ELSE LET before == parameters_loop(indices, parameters, n - 1)
             step == with_query_parameter_step(before.indices, parameters[n])
         IN  [indices |-> step.indices, calls |-> Append(before.calls, step.call)]

\* the indices passed to the engine, filed under the parameter name
RECURSIVE record_param_passed(_, _)
record_param_passed(passed, calls) ==
    IF calls = <<>>
    THEN passed
    ELSE LET c == Head(calls)
         IN  record_param_passed([passed EXCEPT ![c.name] = Append(@, c.index)],
                                 Tail(calls))

QueryWithinBound(indices) == SumOver(indices, DOMAIN indices) <= MaxQueryCalls

\* a with_query_parameter that puts the counter back when the engine
\* rejects the call
with_query_parameters_body_rollback(fn, parameters, fail_at) ==
    LET n == IF fail_at = 0 THEN Len(parameters) ELSE fail_at
        done == parameters_loop(parameter_indices, parameters, n)
    IN  /\ op' = [fn |-> fn, part |-> PartNone]
        /\ UNCHANGED <<interaction_part, response_status, request_indices,
                       header_passed, early_response_headers>>
        /\ QueryWithinBound(done.indices)
        /\ parameter_indices' =
              IF fail_at = 0 THEN done.indices ELSE parameter_indices
        /\ ffi_calls' = done.calls
        /\ param_passed' = record_param_passed(param_passed, done.calls)
        /\ raised' = IF fail_at = 0 THEN NoError ELSE EngineError

\* with_query_parameters(parameters): fail_at = 0 when the engine accepts
\* every parameter, k when it rejects the k-th one
with_query_parameters_body(fn, parameters, fail_at) ==
    LET n == IF fail_at = 0 THEN Len(parameters) ELSE fail_at
        done == parameters_loop(parameter_indices, parameters, n)
    IN  /\ op' = [fn |-> fn, part |-> PartNone]
        /\ UNCHANGED <<interaction_part, response_status, request_indices,
                       header_passed,
                       early_response_headers>>
        /\ QueryWithinBound(done.indices)
        /\ parameter_indices' = done.indices
        /\ ffi_calls' = done.calls
        /\ param_passed' = record_param_passed(param_passed, done.calls)
        /\ raised' = IF fail_at = 0 THEN NoError ELSE EngineError

with_query_parameter(name, ok) ==
    with_query_parameters_body("with_query_parameter", <<name>>,
                               IF ok THEN 0 ELSE 1)

with_query_parameters(parameters, fail_at) ==
    /\ fail_at <= Len(parameters)
    /\ with_query_parameters_body("with_query_parameters", parameters, fail_at)

\* the query parameter methods, and with_header on the same interaction
QueryNext ==
    \/ \E name \in QueryNames, ok \in BOOLEAN :
          with_query_parameter(name, ok) /\ QueryFrame
    \/ \E parameters \in QueryLists :
          \E fail_at \in 0..Len(parameters) :
             with_query_parameters(parameters, fail_at) /\ QueryFrame
    \/ \E name \in HeaderNames, ok \in BOOLEAN :
          with_header(name, PartNone, ok) /\ HttpFrame
    \/ \E status \in Statuses, ok \in BOOLEAN :
          will_respond_with(status, ok) /\ HttpFrame

---------------------------------------------------------------------------
(* Pact.upon_receiving, AsyncMessageInteraction, SyncMessageInteraction *)

AttributeError == "AttributeError"

\* stands for a call of upon_receiving without the interaction argument
KindOmitted == "omitted"

\* interaction arguments a caller can pass: the three literals, a str that is
\* none of them, and no argument
KindArgs == {"HTTP", "Async", "Sync", "http", KindOmitted}

MessageClasses == {"AsyncMessageInteraction", "SyncMessageInteraction"}

\* no interaction has been asked for yet
MessageInit ==
    /\ interactions = <<>>
    /\ interaction_class = None
    /\ message_part = None
    /\ message_op = [fn |-> "none"]
    /\ message_calls = <<>>
    /\ message_raised = NoError

\* an upon_receiving that takes every other kind for "HTTP"
upon_receiving_http_fallback(kind, ok) ==
    LET interaction == IF kind = KindOmitted THEN "HTTP" ELSE kind
        made == IF interaction = "Async"
                THEN [class |-> "AsyncMessageInteraction",
                      fn |-> "new_message_interaction", part |-> None]
                ELSE IF interaction = "Sync"
                THEN [class |-> "SyncMessageInteraction",
                      fn |-> "new_sync_message_interaction",
                      part |-> Some(REQUEST)]
                ELSE [class |-> "HttpInteraction", fn |-> "new_interaction",
                      part |-> Some(REQUEST)]
    IN  /\ message_op' = [fn |-> "upon_receiving", interaction |-> kind]
        /\ message_calls' = <<[fn |-> made.fn]>>
        /\ IF ok
           THEN /\ Len(interactions) < MaxInteractions
                /\ interactions' = Append(interactions, made.fn)
                /\ interaction_class' = Some(made.class)
                /\ message_part' = made.part
                /\ message_raised' = NoError
           ELSE /\ message_raised' = EngineError
                /\ UNCHANGED <<interactions, interaction_class, message_part>>

\* Pact.upon_receiving(description, interaction), lines 1068-1076, with the
\* constructor of the class it picks: lines 401-403, 815-816 and 860-865
upon_receiving(kind, ok) ==
    LET interaction == IF kind = KindOmitted THEN "HTTP" ELSE kind
        made == IF interaction = "HTTP"
                THEN [class |-> "HttpInteraction", fn |-> "new_interaction",
                      part |-> Some(REQUEST)]
                ELSE IF interaction = "Async"
                THEN [class |-> "AsyncMessageInteraction",
                      fn |-> "new_message_interaction", part |-> None]
                ELSE IF interaction = "Sync"
                THEN [class |-> "SyncMessageInteraction",
                      fn |-> "new_sync_message_interaction",
                      part |-> Some(REQUEST)]
                ELSE [class |-> ValueError, fn |-> "", part |-> None]
    IN  /\ message_op' = [fn |-> "upon_receiving", interaction |-> kind]
        /\ IF made.class = ValueError
           THEN /\ message_raised' = ValueError
                /\ message_calls' = <<>>
                /\ UNCHANGED <<interactions, interaction_class, message_part>>
           ELSE /\ message_calls' = <<[fn |-> made.fn]>>
                /\ IF ok
                   THEN /\ Len(interactions) < MaxInteractions
                        /\ interactions' = Append(interactions, made.fn)
                        /\ interaction_class' = Some(made.class)
                        /\ message_part' = made.part
                        /\ message_raised' = NoError
                   ELSE /\ message_raised' = EngineError
                        /\ UNCHANGED <<interactions, interaction_class,
                                       message_part>>

\* the _interaction_part property of the two message classes: lines 828-830
\* and 877-879
message_interaction_part ==
    IF interaction_class = Some("AsyncMessageInteraction")
    THEN REQUEST
    ELSE message_part[1]

\* a resolution that takes a missing part for the Response
message_parse_interaction_part_response(part) ==
    IF part = "Request" THEN REQUEST
    ELSE IF part = "Response" THEN RESPONSE
    ELSE IF part = PartNone THEN RESPONSE
    ELSE ValueError

\* Interaction._parse_interaction_part on a message interaction
message_parse_interaction_part(part) ==
    IF part = "Request" THEN REQUEST
    ELSE IF part = "Response" THEN RESPONSE
    ELSE IF part = PartNone THEN message_interaction_part
    ELSE ValueError

\* the mutators a message interaction inherits from Interaction that take a
\* part: with_body, with_binary_file, with_multipart_file,
\* with_plugin_contents
message_part_call(fn, ffi_fn, part, ok) ==
    /\ interaction_class # None
    /\ interaction_class[1] \in MessageClasses
    /\ LET part_ == message_parse_interaction_part(part)
       IN  /\ message_op' = [fn |-> fn, part |-> part]
           /\ UNCHANGED <<interactions, interaction_class, message_part>>
           /\ IF part_ = ValueError
              THEN /\ message_raised' = ValueError
                   /\ message_calls' = <<>>
              ELSE /\ message_calls' = <<[fn |-> ffi_fn, part |-> part_]>>
                   /\ message_raised' = IF ok THEN NoError ELSE EngineError

\* a will_respond_with on a message interaction that does what
\* HttpInteraction.will_respond_with does
message_will_respond_with_flips(status) ==
    /\ interaction_class # None
    /\ interaction_class[1] \in MessageClasses
    /\ message_op' = [fn |-> "will_respond_with", part |-> PartNone]
    /\ message_calls' = <<[fn |-> "response_status", status |-> status]>>
    /\ message_raised' = NoError
    /\ message_part' = IF message_part = None THEN None ELSE Some(RESPONSE)
    /\ UNCHANGED <<interactions, interaction_class>>

\* will_respond_with called on a message interaction: neither class defines
\* it (lines 788-879) and Interaction does not, so the attribute lookup
\* raises
message_will_respond_with(status) ==
    /\ interaction_class # None
    /\ interaction_class[1] \in MessageClasses
    /\ message_op' = [fn |-> "will_respond_with", part |-> PartNone]
    /\ message_calls' = <<>>
    /\ message_raised' = AttributeError
    /\ UNCHANGED <<interactions, interaction_class, message_part>>

InteractionNext ==
    \/ \E kind \in KindArgs, ok \in BOOLEAN :
          upon_receiving(kind, ok) /\ MessageFrame
    \/ \E part \in PartArgs, ok \in BOOLEAN :
          message_part_call("with_body", "with_body", part, ok) /\ MessageFrame
    \/ \E part \in PartArgs, ok \in BOOLEAN :
          message_part_call("with_binary_file", "with_binary_file", part, ok)
             /\ MessageFrame
    \/ \E part \in PartArgs, ok \in BOOLEAN :
          message_part_call("with_multipart_file", "with_multipart_file_v2",
                            part, ok) /\ MessageFrame
    \/ \E part \in PartArgs, ok \in BOOLEAN :
          message_part_call("with_plugin_contents", "interaction_contents",
                            part, ok) /\ MessageFrame
    \/ \E status \in Statuses : message_will_respond_with(status) /\ MessageFrame

---------------------------------------------------------------------------
(* Interaction.given *)

States == {"s1", "s2"}

ParamNames == {None, Some("a"), Some("b")}

ParamValues == {None, Some("1")}

\* json.dumps(parameters): the text of a JSON object with these members
json_dumps(items) == [json |-> TRUE, object |-> items, text |-> ""]

\* a str that is not the text of a JSON value
RawText == [json |-> FALSE, object |-> <<>>, text |-> "x"]

\* the parameters argument: None, a dict, a str holding a JSON object, a str
\* that holds no JSON
ParametersArgs ==
    {None,
     Some([type |-> "dict", items |-> [k \in {"a"} |-> "2"], str |-> RawText]),
     Some([type |-> "str", items |-> <<>>,
           str |-> json_dumps([k \in {"b"} |-> "1"])]),
     Some([type |-> "str", items |-> <<>>, str |-> RawText])}

GivenInit ==
    /\ provider_states = <<>>
    /\ given_op = [fn |-> "__init__"]
    /\ given_calls = <<>>
    /\ given_raised = NoError

\* d1 updated with d2, as dict.update does
Merged(d1, d2) ==
    [k \in DOMAIN d1 \cup DOMAIN d2 |-> IF k \in DOMAIN d2 THEN d2[k] ELSE d1[k]]

\* the engine's provider states after it is given `params` for `state`: the
\* entry of that state takes the parameters, and is added when there is none
engine_given(states, state, params) ==
    IF \E k \in 1..Len(states) : states[k].name = state
    THEN [k \in 1..Len(states) |->
            IF states[k].name = state
            THEN [name |-> state, params |-> Merged(states[k].params, params)]
            ELSE states[k]]
    ELSE Append(states, [name |-> state, params |-> params])

\* the engine reads the params text: a JSON object gives its members, any
\* other text is one parameter named "value"
engine_params(str) ==
    IF str.json THEN str.object ELSE [k \in {"value"} |-> str.text]

\* a serialisation that takes every parameters argument for a dict
params_text_of_items(parameters) == json_dumps(parameters.items)

\* the text handed to ffi.given_with_params, lines 217-225: a dict is
\* serialised, a str is passed as it is
params_text(parameters) ==
    IF parameters.type = "dict"
    THEN json_dumps(parameters.items)
    ELSE parameters.str

\* a first test that forgets `parameters is None`
given_branch_loose(name, value, parameters) ==
    IF name # None /\ value # None
    THEN "given_with_param"
    ELSE IF name = None /\ value = None /\ parameters # None
    THEN "given_with_params"
    ELSE IF name = None /\ value = None /\ parameters = None
    THEN "given"
    ELSE ValueError

\* which branch of lines 215-230 the arguments take
given_branch(name, value, parameters) ==
    IF name # None /\ value # None /\ parameters = None
    THEN "given_with_param"
    ELSE IF name = None /\ value = None /\ parameters # None
    THEN "given_with_params"
    ELSE IF name = None /\ value = None /\ parameters = None
    THEN "given"
    ELSE ValueError

\* a given_with_param call with name and value in each other's place
given_call_swapped(state, name, value, parameters) ==
    LET branch == given_branch(name, value, parameters)
    IN  IF branch = "given_with_param"
        THEN [fn |-> branch, state |-> state,
              params |-> [k \in {value[1]} |-> name[1]]]
        ELSE IF branch = "given_with_params"
        THEN [fn |-> branch, state |-> state,
              params |-> engine_params(params_text(parameters[1]))]
        ELSE [fn |-> branch, state |-> state, params |-> <<>>]

\* the call lines 215-227 make to the engine
given_call(state, name, value, parameters) ==
    LET branch == given_branch(name, value, parameters)
    IN  IF branch = "given_with_param"
        THEN [fn |-> branch, state |-> state,
              params |-> [k \in {name[1]} |-> value[1]]]
        ELSE IF branch = "given_with_params"
        THEN [fn |-> branch, state |-> state,
              params |-> engine_params(params_text(parameters[1]))]
        ELSE [fn |-> branch, state |-> state, params |-> <<>>]

given(state, name, value, parameters, ok) ==
    /\ given_op' = [fn |-> "given", state |-> state, name |-> name,
                    value |-> value, parameters |-> parameters]
    /\ IF given_branch(name, value, parameters) = ValueError
       THEN /\ given_raised' = ValueError
            /\ given_calls' = <<>>
            /\ UNCHANGED provider_states
       ELSE LET call == given_call(state, name, value, parameters)
            IN  /\ given_calls' = <<call>>
                /\ IF ok
                   THEN /\ provider_states' =
                              engine_given(provider_states, call.state, call.params)
                        /\ given_raised' = NoError
                   ELSE /\ given_raised' = EngineError
                        /\ UNCHANGED provider_states

GivenNext ==
    \/ \E state \in States, name \in ParamNames, value \in ParamValues,
             parameters \in ParametersArgs, ok \in BOOLEAN :
          given(state, name, value, parameters, ok) /\ GivenFrame

---------------------------------------------------------------------------
(* Pact *)

KeyError == "KeyError"

\* consumer and provider names a caller passes
ConsumerNames == {"", "consumer"}

ProviderNames == {"", "provider"}

\* the characters of a version string
VersionChars == {"v", "V", "1", ".", "_"}

VersionStrings == UNION {[1..n -> VersionChars] : n \in 0..MaxVersionLen}

\* the names of the members of pact.v3.ffi.PactSpecification that the
\* characters above can spell: V1 and V1_1
PactSpecification == {<<"V", "1">>, <<"V", "1", "_", "1">>}

\* the version argument: a str or a member of PactSpecification
VersionArgs ==
    {[type |-> "str", value |-> v] : v \in VersionStrings}
        \cup {[type |-> "PactSpecification", value |-> m] : m \in PactSpecification}

PactInit ==
    /\ pact_handle = None
    /\ consumer = None
    /\ provider = None
    /\ specification = None
    /\ pact_op = [fn |-> "none"]
    /\ pact_calls = <<>>
    /\ pact_raised = NoError

\* the state Pact("consumer", "provider") leaves when the engine accepts it
PactBuilt ==
    /\ pact_handle = Some(1)
    /\ consumer = Some("consumer")
    /\ provider = Some("provider")
    /\ specification = None
    /\ pact_op = [fn |-> "__init__", consumer |-> "consumer",
                  provider |-> "provider"]
    /\ pact_calls = <<[fn |-> "new_pact", consumer |-> "consumer",
                       provider |-> "provider"]>>
    /\ pact_raised = NoError

\* a constructor without the test of the provider name
Pact__init__unchecked_provider(consumer_, provider_, ok) ==
    /\ pact_handle = None
    /\ pact_op' = [fn |-> "__init__", consumer |-> consumer_,
                   provider |-> provider_]
    /\ UNCHANGED specification
    /\ IF consumer_ = ""
       THEN /\ pact_raised' = ValueError
            /\ pact_calls' = <<>>
            /\ UNCHANGED <<pact_handle, consumer, provider>>
       ELSE /\ pact_calls' = <<[fn |-> "new_pact", consumer |-> consumer_,
                                provider |-> provider_]>>
            /\ IF ok
               THEN /\ consumer' = Some(consumer_)
                    /\ provider' = Some(provider_)
                    /\ pact_handle' = Some(1)
                    /\ pact_raised' = NoError
               ELSE /\ pact_raised' = EngineError
                    /\ UNCHANGED <<pact_handle, consumer, provider>>

\* Pact(consumer, provider): lines 910-923
Pact__init__(consumer_, provider_, ok) ==
    /\ pact_handle = None
    /\ pact_op' = [fn |-> "__init__", consumer |-> consumer_,
                   provider |-> provider_]
    /\ UNCHANGED specification
    /\ IF consumer_ = ""
       THEN /\ pact_raised' = ValueError
            /\ pact_calls' = <<>>
            /\ UNCHANGED <<pact_handle, consumer, provider>>
       ELSE IF provider_ = ""
       THEN /\ pact_raised' = ValueError
            /\ pact_calls' = <<>>
            /\ UNCHANGED <<pact_handle, consumer, provider>>
       ELSE /\ pact_calls' = <<[fn |-> "new_pact", consumer |-> consumer_,
                                provider |-> provider_]>>
            /\ IF ok
               THEN /\ consumer' = Some(consumer_)
                    /\ provider' = Some(provider_)
                    /\ pact_handle' = Some(1)
                    /\ pact_raised' = NoError
               ELSE /\ pact_raised' = EngineError
                    /\ UNCHANGED <<pact_handle, consumer, provider>>

\* str.replace(".", "_")
str_replace_dot(s) == [k \in 1..Len(s) |-> IF s[k] = "." THEN "_" ELSE s[k]]

\* str.startswith("V")
startswith_V(s) == Len(s) > 0 /\ s[1] = "V"

\* PactSpecification[name]: the member of that name, or KeyError
PactSpecification_getitem(name) ==
    IF name \in PactSpecification
    THEN [raised |-> NoError, member |-> name]
    ELSE [raised |-> KeyError, member |-> <<>>]

\* lines 977-982 without the "." replacement
resolve_version_no_replace(version) ==
    IF version.type = "str"
    THEN LET upper == str_upper(version.value)
         IN  IF startswith_V(upper)
             THEN PactSpecification_getitem(upper)
             ELSE PactSpecification_getitem(<<"V">> \o upper)
    ELSE [raised |-> NoError, member |-> version.value]

\* a lookup that falls back to V1 for a name that is no member
resolve_version_lenient(version) ==
    IF version.type = "str"
    THEN LET upper == str_replace_dot(str_upper(version.value))
             name == IF startswith_V(upper) THEN upper ELSE <<"V">> \o upper
         IN  IF name \in PactSpecification
             THEN [raised |-> NoError, member |-> name]
             ELSE [raised |-> NoError, member |-> <<"V", "1">>]
    ELSE [raised |-> NoError, member |-> version.value]

\* lines 977-982: the member a version argument names
resolve_version(version) ==
    IF version.type = "str"
    THEN LET upper == str_replace_dot(str_upper(version.value))
         IN  IF startswith_V(upper)
             THEN PactSpecification_getitem(upper)
             ELSE PactSpecification_getitem(<<"V">> \o upper)
    ELSE [raised |-> NoError, member |-> version.value]

\* with_specification(version): lines 977-984
with_specification(version, ok) ==
    /\ pact_handle # None
    /\ pact_op' = [fn |-> "with_specification", version |-> version]
    /\ UNCHANGED <<pact_handle, consumer, provider>>
    /\ LET resolved == resolve_version(version)
       IN  IF resolved.raised # NoError
           THEN /\ pact_raised' = resolved.raised
                /\ pact_calls' = <<>>
                /\ UNCHANGED specification
           ELSE /\ pact_calls' = <<[fn |-> "with_specification",
                                    version |-> resolved.member]>>
                /\ IF ok
                   THEN /\ specification' = Some(resolved.member)
                        /\ pact_raised' = NoError
                   ELSE /\ pact_raised' = EngineError
                        /\ UNCHANGED specification

PactNext ==
    \/ \E consumer_ \in ConsumerNames, provider_ \in ProviderNames, ok \in BOOLEAN :
          Pact__init__(consumer_, provider_, ok) /\ PactFrame
    \/ \E version \in VersionArgs, ok \in BOOLEAN : with_specification(version, ok) /\ PactFrame

---------------------------------------------------------------------------
(* PactServer *)

RuntimeError == "RuntimeError"

\* the ports the engine picks from when port 0 is asked for
EnginePorts == {49152, 49153}

RequestedPorts == {0, 8080}

Transports == {"http", "https"}

\* exceptions raised inside the with block
BodyErrors == {"AssertionError"}

\* the directory argument of write_file: None (the working directory, which
\* exists) or the target path
DirectoryArgs == {None, Some("out")}

\* what the file system holds at the target path "out": nothing and no
\* parent directory either, nothing below an existing parent, a directory,
\* a file
DirectoryStates == {"no_parent", "missing", "dir", "file"}

ServerIdle ==
    /\ server_handle = None
    /\ server_host = "localhost"
    /\ scope = "Inert"
    /\ body_exc = None
    /\ servers_started = 0
    /\ servers_released = 0
    /\ pact_writes = 0
    /\ server_op = [fn |-> "__init__"]
    /\ server_calls = <<>>
    /\ server_raised = NoError

\* PactServer.__init__, lines 1273-1278, as called by Pact.serve
ServerInit ==
    /\ ServerIdle
    /\ server_port \in RequestedPorts
    /\ server_transport \in Transports
    /\ directory_state \in DirectoryStates

\* the same with one set of arguments, for the specifications of the other
\* objects
ServerUnused ==
    /\ ServerIdle
    /\ server_port = 0
    /\ server_transport = "http"
    /\ directory_state = "missing"

\* the port property read from the constructor's argument
port_configured == server_port

\* the port property, line 1290
port == IF server_handle # None THEN server_handle[1] ELSE 0

\* the characters of the decimal digits
DecimalDigits == <<"0", "1", "2", "3", "4", "5", "6", "7", "8", "9">>

\* str(n) of a non-negative int, as the f-string of line 1317 formats the
\* port
RECURSIVE int_str(_)
int_str(n) ==
    IF n < 10
    THEN <<DecimalDigits[n + 1]>>
    ELSE Append(int_str(n \div 10), DecimalDigits[(n % 10) + 1])

\* a __str__ that formats the port the constructor was given
server_str_configured ==
    <<server_transport, "://", server_host, ":", int_str(port_configured)>>

\* __str__, line 1317: f"{self.transport}://{self.host}:{self.port}", as the
\* pieces the f-string joins; url (line 1311) wraps this string in a URL
server_str ==
    <<server_transport, "://", server_host, ":", int_str(port)>>

\* the port of the server the engine starts: the one asked for, or one of its
\* own choice when 0 is asked for
engine_port(requested, chosen) == IF requested = 0 THEN chosen ELSE requested

\* an __enter__ that takes a handle for the port asked for before the engine
\* has answered, and keeps it when the engine fails
server_enter_handle_first(chosen, ok) ==
    /\ body_exc = None
    /\ servers_started < MaxEnters
    /\ server_op' = [fn |-> "__enter__"]
    /\ server_calls' = <<[fn |-> "create_mock_server_for_transport",
                          host |-> server_host, port |-> server_port,
                          transport |-> server_transport]>>
    /\ UNCHANGED <<server_host, server_port, server_transport, body_exc,
                   directory_state, pact_writes>>
    /\ server_handle' = Some(engine_port(server_port, chosen))
    /\ servers_released' =
          IF server_handle # None
          THEN servers_released + 1 ELSE servers_released
    /\ IF ok
       THEN /\ servers_started' = servers_started + 1
            /\ scope' = "Active"
            /\ server_raised' = NoError
       ELSE /\ server_raised' = EngineError
            /\ UNCHANGED <<servers_started, scope>>

\* __enter__, lines 1342-1350
server_enter(chosen, ok) ==
    /\ body_exc = None
    /\ servers_started < MaxEnters
    /\ server_op' = [fn |-> "__enter__"]
    /\ server_calls' = <<[fn |-> "create_mock_server_for_transport",
                          host |-> server_host, port |-> server_port,
                          transport |-> server_transport]>>
    /\ UNCHANGED <<server_host, server_port, server_transport, body_exc,
                   directory_state, pact_writes>>
    /\ IF ok
       THEN /\ server_handle' = Some(engine_port(server_port, chosen))
            /\ servers_started' = servers_started + 1
            /\ servers_released' =
                  IF server_handle # None
                  THEN servers_released + 1 ELSE servers_released
            /\ scope' = "Active"
            /\ server_raised' = NoError
       ELSE /\ server_raised' = EngineError
            /\ UNCHANGED <<server_handle, servers_started, servers_released,
                           scope>>

\* the with block raises
raise_in_body(e) ==
    /\ scope = "Active"
    /\ body_exc = None
    /\ body_exc' = Some(e)
    /\ server_op' = [fn |-> "raise"]
    /\ server_calls' = <<>>
    /\ server_raised' = NoError
    /\ UNCHANGED <<server_handle, server_host, server_port, server_transport,
                   scope, directory_state, servers_started, servers_released,
                   pact_writes>>

\* an __exit__ that leaves the handle in place
server_exit_keeps_handle ==
    /\ server_op' = [fn |-> "__exit__", exc |-> body_exc]
    /\ server_calls' = <<>>
    /\ body_exc' = None
    /\ scope' = IF scope = "Active" THEN "Released" ELSE scope
    /\ server_raised' = IF body_exc # None THEN body_exc[1] ELSE NoError
    /\ UNCHANGED <<server_handle, servers_released, server_host, server_port,
                   server_transport, directory_state, servers_started,
                   pact_writes>>

\* an __exit__ that counts a release whether or not it holds a handle
server_exit_always_releases ==
    /\ server_op' = [fn |-> "__exit__", exc |-> body_exc]
    /\ server_calls' = <<>>
    /\ body_exc' = None
    /\ scope' = IF scope = "Active" THEN "Released" ELSE scope
    /\ server_handle' = None
    /\ servers_released' = servers_released + 1
    /\ server_raised' = IF body_exc # None THEN body_exc[1] ELSE NoError
    /\ UNCHANGED <<server_host, server_port, server_transport, directory_state,
                   servers_started, pact_writes>>

\* __exit__, lines 1361-1362.  It returns None, so the exception it was
\* given goes on to the caller.
server_exit ==
    /\ server_op' = [fn |-> "__exit__", exc |-> body_exc]
    /\ server_calls' = <<>>
    /\ body_exc' = None
    /\ scope' = IF scope = "Active" THEN "Released" ELSE scope
    /\ IF server_handle # None
       THEN /\ server_handle' = None
            /\ servers_released' = servers_released + 1
       ELSE UNCHANGED <<server_handle, servers_released>>
    /\ server_raised' = IF body_exc # None THEN body_exc[1] ELSE NoError
    /\ UNCHANGED <<server_host, server_port, server_transport, directory_state,
                   servers_started, pact_writes>>

\* a mkdir that makes the directory only below an existing parent
mkdir_no_parents(state) == IF state = "missing" THEN "dir" ELSE state

\* directory.mkdir(parents=True), line 1396, on a path that does not exist
mkdir(state) == "dir"

\* lines 1394-1405 of write_file: the directory, then the engine.  Without a
\* directory argument the path is the working directory, which exists.
write_directory(directory, overwrite, ok) ==
    LET state == IF directory = None THEN "dir" ELSE directory_state
        exists == state \in {"dir", "file"}
        is_dir == state = "dir"
    IN  IF exists /\ ~is_dir
        THEN /\ server_raised' = ValueError
             /\ server_calls' = <<>>
             /\ UNCHANGED <<directory_state, pact_writes>>
        ELSE /\ directory_state' =
                   IF ~exists THEN mkdir(state) ELSE directory_state
             /\ server_calls' = <<[fn |-> "write_pact_file",
                                   directory |-> directory,
                                   overwrite |-> overwrite]>>
             /\ IF ok
                THEN /\ pact_writes < MaxWrites
                     /\ pact_writes' = pact_writes + 1
                     /\ server_raised' = NoError
                ELSE /\ server_raised' = EngineError
                     /\ UNCHANGED pact_writes

\* a write_file without the test of lines 1390-1392
server_write_file_unchecked(directory, overwrite, ok) ==
    /\ body_exc = None
    /\ server_op' = [fn |-> "write_file", directory |-> directory,
                     overwrite |-> overwrite]
    /\ UNCHANGED <<server_handle, server_host, server_port, server_transport,
                   scope, body_exc, servers_started, servers_released>>
    /\ write_directory(directory, overwrite, ok)

\* PactServer.write_file, lines 1390-1405
server_write_file(directory, overwrite, ok) ==
    /\ body_exc = None
    /\ server_op' = [fn |-> "write_file", directory |-> directory,
                     overwrite |-> overwrite]
    /\ UNCHANGED <<server_handle, server_host, server_port, server_transport,
                   scope, body_exc, servers_started, servers_released>>
    /\ IF server_handle = None
       THEN /\ server_raised' = RuntimeError
            /\ server_calls' = <<>>
            /\ UNCHANGED <<directory_state, pact_writes>>
       ELSE write_directory(directory, overwrite, ok)

\* the addr argument of serve
Addrs == {"localhost", "127.0.0.1"}

\* a Pact and the PactServer of its serve() with the default arguments
PactServed ==
    /\ pact_handle = Some(1)
    /\ consumer = Some("consumer")
    /\ provider = Some("provider")
    /\ specification = None
    /\ pact_op = [fn |-> "serve", addr |-> "localhost", port |-> 0,
                  transport |-> "http"]
    /\ pact_calls = <<>>
    /\ pact_raised = NoError

\* a serve that starts the mock server at once
serve_starts(addr, port_, transport) ==
    /\ server_handle = None
    /\ body_exc = None
    /\ servers_started < MaxEnters
    /\ pact_op' = [fn |-> "serve", addr |-> addr, port |-> port_,
                   transport |-> transport]
    /\ pact_calls' = <<>>
    /\ pact_raised' = NoError
    /\ UNCHANGED <<pact_handle, consumer, provider, specification>>
    /\ server_host' = addr
    /\ server_port' = port_
    /\ server_transport' = transport
    /\ server_handle' = Some(engine_port(port_, 49152))
    /\ servers_started' = servers_started + 1
    /\ scope' = "Active"
    /\ server_op' = [fn |-> "__init__"]
    /\ server_calls' = <<[fn |-> "create_mock_server_for_transport",
                          host |-> addr, port |-> port_,
                          transport |-> transport]>>
    /\ server_raised' = NoError
    /\ UNCHANGED <<body_exc, directory_state, servers_released, pact_writes>>

\* Pact.serve(addr, port, transport, transport_config), lines 1119-1125, with
\* PactServer.__init__, lines 1273-1278.  The model follows one PactServer:
\* the next one is asked for when the one before holds no handle.
serve(addr, port_, transport) ==
    /\ server_handle = None
    /\ body_exc = None
    /\ pact_op' = [fn |-> "serve", addr |-> addr, port |-> port_,
                   transport |-> transport]
    /\ pact_calls' = <<>>
    /\ pact_raised' = NoError
    /\ UNCHANGED <<pact_handle, consumer, provider, specification>>
    /\ server_host' = addr
    /\ server_port' = port_
    /\ server_transport' = transport
    /\ server_handle' = None
    /\ scope' = "Inert"
    /\ server_op' = [fn |-> "__init__"]
    /\ server_calls' = <<>>
    /\ server_raised' = NoError
    /\ UNCHANGED <<body_exc, directory_state, servers_started,
                   servers_released, pact_writes>>

\* serve touches the Pact and the PactServer only
ServeFrame ==
    UNCHANGED <<http_vars, query_vars, message_vars, given_vars, side_vars>>

ServeNext ==
    \/ \E addr \in Addrs, port_ \in RequestedPorts, transport \in Transports :
          serve(addr, port_, transport) /\ ServeFrame
    \/ \E chosen \in EnginePorts, ok \in BOOLEAN :
          server_enter(chosen, ok) /\ ServerFrame
    \/ \E e \in BodyErrors : raise_in_body(e) /\ ServerFrame
    \/ server_exit /\ ServerFrame
    \/ \E directory \in DirectoryArgs, overwrite \in BOOLEAN, ok \in BOOLEAN :
          server_write_file(directory, overwrite, ok) /\ ServerFrame

ServerNext ==
    \/ \E chosen \in EnginePorts, ok \in BOOLEAN : server_enter(chosen, ok) /\ ServerFrame
    \/ \E e \in BodyErrors : raise_in_body(e) /\ ServerFrame
    \/ server_exit /\ ServerFrame
    \/ \E directory \in DirectoryArgs, overwrite \in BOOLEAN, ok \in BOOLEAN :
          server_write_file(directory, overwrite, ok) /\ ServerFrame

---------------------------------------------------------------------------
(* Two HttpInteractions of one Pact *)

\* the header and query parameter name, and the part arguments, the calls
\* on the two interactions use
BuilderNames == {<<"X", "a">>}

BuilderParts == {PartNone, "Response"}

BuilderInit ==
    /\ builders = <<>>
    /\ builder_op = [fn |-> "none", self |-> 0]
    /\ builder_calls = <<>>
    /\ builder_raised = NoError

\* the fields HttpInteraction.__init__ sets, lines 403-408
new_builder ==
    [interaction_part |-> REQUEST,
     request_indices |-> [k \in InteractionParts \X HeaderKeyNames |-> 0],
     parameter_indices |-> [n \in QueryNames |-> 0]]

\* Pact.upon_receiving(description, "HTTP"): a new HttpInteraction, unless
\* the engine's new_interaction raises
builder_upon_receiving(ok) ==
    /\ Len(builders) < MaxBuilders
    /\ builder_op' = [fn |-> "upon_receiving", self |-> Len(builders) + 1]
    /\ builder_calls' = <<[fn |-> "new_interaction"]>>
    /\ IF ok
       THEN /\ builders' = Append(builders, new_builder)
            /\ builder_raised' = NoError
       ELSE /\ builder_raised' = EngineError
            /\ UNCHANGED builders

\* the with_header and with_query_parameter calls made so far on all the
\* interactions
RECURSIVE BuilderCallsMade(_)
BuilderCallsMade(bs) ==
    IF bs = <<>>
    THEN 0
    ELSE SumOver(Head(bs).request_indices, DOMAIN Head(bs).request_indices)
         + SumOver(Head(bs).parameter_indices,
                   DOMAIN Head(bs).parameter_indices)
         + BuilderCallsMade(Tail(bs))

\* _parse_interaction_part on the interaction `self`
builder_parse_interaction_part(self, part) ==
    IF part = "Request" THEN REQUEST
    ELSE IF part = "Response" THEN RESPONSE
    ELSE IF part = PartNone THEN builders[self].interaction_part
    ELSE ValueError

\* a with_header whose counters are one dict shared by the interactions
builder_with_header_shared(self, name, part, ok) ==
    LET part_ == builder_parse_interaction_part(self, part)
        key == <<part_, str_lower(name)>>
        step == with_header_step(builders[self].request_indices, name, part_)
    IN  /\ self \in 1..Len(builders)
        /\ BuilderCallsMade(builders) < MaxBuilderCalls
        /\ builder_op' = [fn |-> "with_header", self |-> self]
        /\ builder_calls' = <<step.call>>
        /\ builders' =
              [i \in 1..Len(builders) |->
                 [builders[i] EXCEPT !.request_indices[key] = @ + 1]]
        /\ builder_raised' = IF ok THEN NoError ELSE EngineError

\* with_header(name, value, part) on the interaction `self`, lines 540-551
builder_with_header(self, name, part, ok) ==
    LET part_ == builder_parse_interaction_part(self, part)
        step == with_header_step(builders[self].request_indices, name, part_)
    IN  /\ self \in 1..Len(builders)
        /\ BuilderCallsMade(builders) < MaxBuilderCalls
        /\ builder_op' = [fn |-> "with_header", self |-> self]
        /\ builder_calls' = <<step.call>>
        /\ builders' = [builders EXCEPT ![self].request_indices = step.indices]
        /\ builder_raised' = IF ok THEN NoError ELSE EngineError

\* with_query_parameter(name, value) on the interaction `self`, lines 737-745
builder_with_query_parameter(self, name, ok) ==
    LET step == with_query_parameter_step(builders[self].parameter_indices,
                                          name)
    IN  /\ self \in 1..Len(builders)
        /\ BuilderCallsMade(builders) < MaxBuilderCalls
        /\ builder_op' = [fn |-> "with_query_parameter", self |-> self]
        /\ builder_calls' = <<step.call>>
        /\ builders' =
              [builders EXCEPT ![self].parameter_indices = step.indices]
        /\ builder_raised' = IF ok THEN NoError ELSE EngineError

\* will_respond_with(status) on the interaction `self`, lines 783-785
builder_will_respond_with(self, status, ok) ==
    /\ self \in 1..Len(builders)
    /\ builder_op' = [fn |-> "will_respond_with", self |-> self]
    /\ builder_calls' = <<[fn |-> "response_status", status |-> status]>>
    /\ IF ok
       THEN /\ builders' = [builders EXCEPT ![self].interaction_part = RESPONSE]
            /\ builder_raised' = NoError
       ELSE /\ builder_raised' = EngineError
            /\ UNCHANGED builders

TwoNext ==
    \/ \E ok \in BOOLEAN : builder_upon_receiving(ok) /\ BuilderFrame
    \/ \E self \in 1..MaxBuilders, name \in BuilderNames,
          part \in BuilderParts, ok \in BOOLEAN :
          builder_with_header(self, name, part, ok) /\ BuilderFrame
    \/ \E self \in 1..MaxBuilders, name \in BuilderNames, ok \in BOOLEAN :
          builder_with_query_parameter(self, name, ok) /\ BuilderFrame
    \/ \E self \in 1..MaxBuilders, status \in Statuses, ok \in BOOLEAN :
          builder_will_respond_with(self, status, ok) /\ BuilderFrame

---------------------------------------------------------------------------
(* A chain of mutator calls *)

\* the interactions a chain can start from
ChainObjects == {"interaction_1", "interaction_2"}

ChainInit ==
    /\ chain_self = None
    /\ chain_log = <<>>

\* a mutator whose will_respond_with returns another interaction
chain_return_other(self, fn) ==
    IF fn = "will_respond_with"
    THEN CHOOSE o \in ChainObjects : o # self
    ELSE self

\* the `return self` that ends the mutator fn (lines 231, 265, 302, 325, 341,
\* 380, 443, 551, 605, 641, 675, 745, 765, 785)
chain_return(self, fn) == self

\* upon_receiving hands out the interaction the chain starts from
chain_start(interaction) ==
    /\ chain_self = None
    /\ chain_log = <<>>
    /\ chain_self' = Some(interaction)
    /\ UNCHANGED chain_log

\* the next call of the chain, made on what the chain has evaluated to; it
\* returns unless it raises (ok = FALSE), which ends the chain
chain_call(fn, ok) ==
    /\ chain_self # None
    /\ Len(chain_log) < MaxChain
    /\ LET self == chain_self[1]
           returned == IF ok THEN Some(chain_return(self, fn)) ELSE None
       IN  /\ chain_log' = Append(chain_log, [fn |-> fn, self |-> self,
                                              returned |-> returned])
           /\ chain_self' = returned

ChainNext ==
    \/ \E interaction \in ChainObjects : chain_start(interaction) /\ ChainFrame
    \/ \E ok \in BOOLEAN : chain_call("given", ok) /\ ChainFrame
    \/ \E ok \in BOOLEAN : chain_call("with_body", ok) /\ ChainFrame
    \/ \E ok \in BOOLEAN : chain_call("with_binary_file", ok) /\ ChainFrame
    \/ \E ok \in BOOLEAN : chain_call("with_multipart_file", ok) /\ ChainFrame
    \/ \E ok \in BOOLEAN : chain_call("test_name", ok) /\ ChainFrame
    \/ \E ok \in BOOLEAN : chain_call("with_plugin_contents", ok) /\ ChainFrame
    \/ \E ok \in BOOLEAN : chain_call("with_request", ok) /\ ChainFrame
    \/ \E ok \in BOOLEAN : chain_call("with_header", ok) /\ ChainFrame
    \/ \E ok \in BOOLEAN : chain_call("with_headers", ok) /\ ChainFrame
    \/ \E ok \in BOOLEAN : chain_call("set_header", ok) /\ ChainFrame
    \/ \E ok \in BOOLEAN : chain_call("set_headers", ok) /\ ChainFrame
    \/ \E ok \in BOOLEAN : chain_call("with_query_parameter", ok) /\ ChainFrame
    \/ \E ok \in BOOLEAN : chain_call("with_query_parameters", ok) /\ ChainFrame
    \/ \E ok \in BOOLEAN : chain_call("will_respond_with", ok) /\ ChainFrame

---------------------------------------------------------------------------
(* Two threads in with_header on one interaction *)

RaceThreads == {"t1", "t2"}

\* where a thread stands: outside with_header, or about to execute the read
\* of line 542, the load or the store of the `+= 1` of line 543, or the
\* engine call of line 544
RacePcs == {"idle", "read", "load", "store", "call"}

RaceInit ==
    /\ race_pc = [t \in RaceThreads |-> "idle"]
    /\ race_index = [t \in RaceThreads |-> 0]
    /\ race_loaded = [t \in RaceThreads |-> 0]
    /\ race_counter = 0
    /\ race_started = [t \in RaceThreads |-> 0]
    /\ race_passed = <<>>

\* the thread calls with_header: lines 540-541 write nothing shared
race_begin(t) ==
    /\ race_pc[t] = "idle"
    /\ race_started[t] < MaxRaceCalls
    /\ race_started' = [race_started EXCEPT ![t] = @ + 1]
    /\ race_pc' = [race_pc EXCEPT ![t] = "read"]
    /\ UNCHANGED <<race_index, race_loaded, race_counter, race_passed>>

\* a with_header that takes its index and increments the counter in one
\* step
race_read_and_increment(t) ==
    /\ race_pc[t] = "read"
    /\ race_index' = [race_index EXCEPT ![t] = race_counter]
    /\ race_counter' = race_counter + 1
    /\ race_pc' = [race_pc EXCEPT ![t] = "load"]
    /\ UNCHANGED <<race_loaded, race_started, race_passed>>

\* line 542: index = self._request_indices[(part, name_lower)]
race_read(t) ==
    /\ race_pc[t] = "read"
    /\ race_index' = [race_index EXCEPT ![t] = race_counter]
    /\ race_pc' = [race_pc EXCEPT ![t] = "load"]
    /\ UNCHANGED <<race_loaded, race_counter, race_started, race_passed>>

\* line 543, self._request_indices[(part, name_lower)] += 1: the counter
\* is loaded ...
race_load(t) ==
    /\ race_pc[t] = "load"
    /\ race_loaded' = [race_loaded EXCEPT ![t] = race_counter]
    /\ race_pc' = [race_pc EXCEPT ![t] = "store"]
    /\ UNCHANGED <<race_index, race_counter, race_started, race_passed>>

\* ... and the value loaded, plus one, is stored
race_store(t) ==
    /\ race_pc[t] = "store"
    /\ race_counter' = race_loaded[t] + 1
    /\ race_pc' = [race_pc EXCEPT ![t] = "call"]
    /\ UNCHANGED <<race_index, race_loaded, race_started, race_passed>>

\* lines 544-551: the index is passed to the engine and with_header is left
race_call(t) ==
    /\ race_pc[t] = "call"
    /\ race_passed' = Append(race_passed,
                             [thread |-> t, index |-> race_index[t]])
    /\ race_pc' = [race_pc EXCEPT ![t] = "idle"]
    /\ race_index' = [race_index EXCEPT ![t] = 0]
    /\ race_loaded' = [race_loaded EXCEPT ![t] = 0]
    /\ UNCHANGED <<race_counter, race_started>>

RaceNext ==
    \/ \E t \in RaceThreads : race_begin(t) /\ RaceFrame
    \/ \E t \in RaceThreads : race_read(t) /\ RaceFrame
    \/ \E t \in RaceThreads : race_load(t) /\ RaceFrame
    \/ \E t \in RaceThreads : race_store(t) /\ RaceFrame
    \/ \E t \in RaceThreads : race_call(t) /\ RaceFrame

\* the initial values of the variables of SpecTwo, SpecChain and SpecRace
SideInit == BuilderInit /\ ChainInit /\ RaceInit

---------------------------------------------------------------------------
(* The specifications *)

InitHttp ==
    /\ HttpInit /\ MessageInit /\ GivenInit /\ PactInit /\ ServerUnused
    /\ SideInit

SpecHttp == InitHttp /\ [][HttpNext]_vars

InitQuery ==
    /\ HttpInit /\ MessageInit /\ GivenInit /\ PactInit /\ ServerUnused
    /\ SideInit

SpecQuery == InitQuery /\ [][QueryNext]_vars

InitInteraction ==
    /\ HttpInit /\ MessageInit /\ GivenInit /\ PactBuilt /\ ServerUnused
    /\ SideInit

SpecInteraction == InitInteraction /\ [][InteractionNext]_vars

InitGiven ==
    /\ HttpInit /\ MessageInit /\ GivenInit /\ PactInit /\ ServerUnused
    /\ SideInit

SpecGiven == InitGiven /\ [][GivenNext]_vars

InitPact ==
    /\ HttpInit /\ MessageInit /\ GivenInit /\ PactInit /\ ServerUnused
    /\ SideInit

SpecPact == InitPact /\ [][PactNext]_vars

InitServe ==
    /\ HttpInit /\ MessageInit /\ GivenInit /\ PactServed /\ ServerUnused
    /\ SideInit

SpecServe == InitServe /\ [][ServeNext]_vars

InitServer ==
    /\ HttpInit /\ MessageInit /\ GivenInit /\ PactInit /\ ServerInit
    /\ SideInit

SpecServer == InitServer /\ [][ServerNext]_vars

InitTwo ==
    /\ HttpInit /\ MessageInit /\ GivenInit /\ PactBuilt /\ ServerUnused
    /\ SideInit

SpecTwo == InitTwo /\ [][TwoNext]_vars

InitChain ==
    /\ HttpInit /\ MessageInit /\ GivenInit /\ PactBuilt /\ ServerUnused
    /\ SideInit

SpecChain == InitChain /\ [][ChainNext]_vars

InitRace ==
    /\ HttpInit /\ MessageInit /\ GivenInit /\ PactBuilt /\ ServerUnused
    /\ SideInit

SpecRace == InitRace /\ [][RaceNext]_vars

---------------------------------------------------------------------------
(* Part resolution and header indices *)

\* the mutators that take a part argument
PartTakingOps ==
    {"with_header", "with_headers", "set_header", "set_headers", "with_body",
     "with_binary_file", "with_multipart_file", "with_plugin_contents"}

\* C1: every engine call of a part-taking mutator that was called without a
\* part carries Request while no will_respond_with call has returned, and
\* Response once one has.  (A will_respond_with call that raises in
\* ffi.response_status never reaches line 784: it sets no status and the
\* calls after it still carry Request.)
C1_PartlessCallsUseCurrentPart ==
    (op.fn \in PartTakingOps /\ op.part = PartNone) =>
        \A k \in 1..Len(ffi_calls) :
            ffi_calls[k].part =
                IF response_status # None THEN RESPONSE ELSE REQUEST

\* a with_headers call without a part, after will_respond_with, has sent two
\* headers to the Response
C1_Witness ==
    /\ response_status # None
    /\ op = [fn |-> "with_headers", part |-> PartNone]
    /\ Len(ffi_calls) = 2
    /\ ffi_calls[2].part = RESPONSE

\* C2: for each (part, lowercased header name) the indices passed to the
\* engine by with_header are 0, 1, 2, ... in call order, whatever the
\* spelling of the name and whatever was called in between
C2_HeaderIndexIsCallCount ==
    \A key \in DOMAIN header_passed :
        \A k \in 1..Len(header_passed[key]) : header_passed[key][k] = k - 1

\* "xA" is sent to the Request with index 1 after "Xa" took index 0, and
\* "y" has been sent as well
C2_Witness ==
    /\ header_passed[<<REQUEST, <<"x", "a">>>>] = <<0, 1>>
    /\ header_passed[<<REQUEST, <<"y">>>>] = <<0>>
    /\ op.fn = "with_header"
    /\ Len(ffi_calls) = 1
    /\ ffi_calls[1].name = <<"x", "A">>
    /\ ffi_calls[1].index = 1

\* C12 (as stated): a set_header call that reaches the engine takes its index
\* from the counter of (resolved part, lowercased name) and increments that
\* counter
C12_Original_SetHeaderIndexed ==
    [][(op'.fn = "set_header" /\ ffi_calls' # <<>>) =>
        LET c == ffi_calls'[1]
            key == <<c.part, str_lower(c.name)>>
        IN  request_indices'[key] = request_indices[key] + 1]_vars

\* C12 (amended): set_header and set_headers keep no index: each engine call
\* they make is set_header(part, name, value) with the resolved part and
\* without an index, and the header counters, which only with_header
\* advances, are as they were
C12_SetHeaderKeepsNoIndex ==
    [][op'.fn \in {"set_header", "set_headers"} =>
        /\ request_indices' = request_indices
        /\ header_passed' = header_passed
        /\ \A k \in 1..Len(ffi_calls') :
              /\ ffi_calls'[k].fn = "set_header"
              /\ DOMAIN ffi_calls'[k] = {"fn", "part", "name", "value"}
              /\ ffi_calls'[k].part =
                    IF op'.part = PartNone THEN interaction_part ELSE op'.part]_vars

\* set_headers has sent "Xa" and "xA" to the Request, after a with_header of
\* that name took index 0; the counter still stands at 1
C12_Witness ==
    /\ op = [fn |-> "set_headers", part |-> PartNone]
    /\ raised = NoError
    /\ Len(ffi_calls) = 2
    /\ ffi_calls[1].name = <<"X", "a">>
    /\ ffi_calls[2].name = <<"x", "A">>
    /\ ffi_calls[2].part = REQUEST
    /\ request_indices[<<REQUEST, <<"x", "a">>>>] = 1
    /\ header_passed[<<REQUEST, <<"x", "a">>>>] = <<0>>

\* C23: the current part of an HttpInteraction is Request at first and only
\* a will_respond_with that returns changes it, to Response, where it stays
\* (a second will_respond_with included); a mutator called with part
\* "Request" or "Response" sends that part to the engine and leaves the
\* current part as it was
C23_PartChangedByWillRespondWithOnly ==
    /\ interaction_part = REQUEST
    /\ [][/\ interaction_part' # interaction_part =>
                (op'.fn = "will_respond_with" /\ raised' = NoError)
          /\ (op'.fn = "will_respond_with" /\ raised' = NoError) =>
                interaction_part' = RESPONSE
          /\ interaction_part = RESPONSE => interaction_part' = RESPONSE
          /\ (op'.fn \in PartTakingOps /\ op'.part \in {"Request", "Response"}) =>
                /\ interaction_part' = interaction_part
                /\ \A k \in 1..Len(ffi_calls') : ffi_calls'[k].part = op'.part]_vars

\* after will_respond_with, with_body with part "Request" went to the
\* Request and the current part is still Response
C23_Witness ==
    /\ interaction_part = RESPONSE
    /\ response_status # None
    /\ op = [fn |-> "with_body", part |-> "Request"]
    /\ raised = NoError
    /\ Len(ffi_calls) = 1
    /\ ffi_calls[1].part = REQUEST

\* the part arguments _parse_interaction_part accepts
KnownParts == {"Request", "Response", PartNone}

C26_CounterKeyedByResolvedPart ==
    [][(op'.fn = "with_header" /\ ffi_calls' # <<>>) =>
        LET c == ffi_calls'[1]
            key == <<c.part, str_lower(c.name)>>
        IN  /\ c.part = IF op'.part = PartNone THEN interaction_part
                        ELSE op'.part
            /\ c.index = request_indices[key]
            /\ c.index = Len(header_passed[key])
            /\ request_indices'[key] = c.index + 1]_vars

\* "Xa" was sent with part "Response" while the current part was Request
\* and took index 0; after will_respond_with a call without a part took
\* index 1 of the same counter
C26_Witness ==
    /\ <<"x", "a">> \in early_response_headers
    /\ response_status # None
    /\ op = [fn |-> "with_header", part |-> PartNone]
    /\ raised = NoError
    /\ Len(ffi_calls) = 1
    /\ ffi_calls[1].index = 1
    /\ ffi_calls[1].part = RESPONSE
    /\ header_passed[<<RESPONSE, <<"x", "a">>>>] = <<0, 1>>
    /\ request_indices[<<REQUEST, <<"x", "a">>>>] = 0

\* with_header(name, value, part) called once for each of `names`, first to
\* last, starting from the counters `indices`: the engine calls made and the
\* counters left
RECURSIVE one_by_one(_, _, _)
one_by_one(indices, names, part_) ==
    IF names = <<>>
    THEN [indices |-> indices, calls |-> <<>>]
    ELSE LET first == with_header_step(indices, Head(names), part_)
             rest == one_by_one(first.indices, Tail(names), part_)
         IN  [indices |-> rest.indices, calls |-> <<first.call>> \o rest.calls]

\* C29: with_headers makes the engine calls, with the indices, that
\* with_header called once per pair in order makes, and leaves the counters
\* those calls leave; when the engine rejects the k-th pair the calls and
\* the counter increments of the pairs up to it stay as they are
C29_WithHeadersIsWithHeaderPerPair ==
    [][(op'.fn = "with_headers" /\ ffi_calls' # <<>>) =>
        LET names == [k \in 1..Len(ffi_calls') |-> ffi_calls'[k].name]
            part_ == IF op'.part = PartNone THEN interaction_part ELSE op'.part
            each == one_by_one(request_indices, names, part_)
        IN  /\ ffi_calls' = each.calls
            /\ request_indices' = each.indices
            /\ header_passed' = record_passed(header_passed, each.calls)
            /\ interaction_part' = interaction_part]_vars

\* with_headers([("Xa", v), ("xA", v)]) whose second pair the engine
\* rejected: the pairs took indices 0 and 1 and the counter stands at 2
C29_Witness ==
    /\ op.fn = "with_headers"
    /\ raised = EngineError
    /\ Len(ffi_calls) = 2
    /\ ffi_calls[1].index = 0
    /\ ffi_calls[2].index = 1
    /\ request_indices[<<ffi_calls[1].part, <<"x", "a">>>>] = 2

\* C24 (as stated): when the engine rejects a with_header or
\* with_query_parameter call, the current part and every header and query
\* counter are as they were before the call
C24_Original_FailedCallLeavesCounters ==
    [][(op'.fn \in {"with_header", "with_query_parameter"}
          /\ raised' = EngineError) =>
        UNCHANGED <<interaction_part, request_indices, parameter_indices>>]_vars

\* C24 (amended): when the engine rejects a with_header or
\* with_query_parameter call, the current part, the response status and
\* every other counter are as they were before the call, and the counter
\* the call drew its index from stands one higher
C24_FailedCallKeepsItsIncrement ==
    [][(op'.fn \in {"with_header", "with_query_parameter"}
          /\ raised' = EngineError) =>
        /\ UNCHANGED <<interaction_part, response_status>>
        /\ Len(ffi_calls') = 1
        /\ LET c == ffi_calls'[1]
           IN  IF op'.fn = "with_header"
               THEN /\ parameter_indices' = parameter_indices
                    /\ c.index = request_indices[<<c.part, str_lower(c.name)>>]
                    /\ request_indices' =
                          [request_indices EXCEPT
                             ![<<c.part, str_lower(c.name)>>] = @ + 1]
               ELSE /\ request_indices' = request_indices
                    /\ c.index = parameter_indices[c.name]
                    /\ parameter_indices' =
                          [parameter_indices EXCEPT ![c.name] = @ + 1]]_vars

\* the engine rejected the first with_query_parameter for "y": its counter
\* stands at 1 although no parameter was added
C24_Witness ==
    /\ op.fn = "with_query_parameter"
    /\ raised = EngineError
    /\ ffi_calls[1].name = <<"y">>
    /\ ffi_calls[1].index = 0
    /\ param_passed[<<"y">>] = <<0>>
    /\ parameter_indices[<<"y">>] = 1

\* C27 (as stated): a with_query_parameter made after will_respond_with is
\* sent to the engine for the Response part
C27_Original_QuerySentToCurrentPart ==
    [][(op'.fn = "with_query_parameter" /\ interaction_part = RESPONSE
          /\ ffi_calls' # <<>>) =>
        /\ "part" \in DOMAIN ffi_calls'[1]
        /\ ffi_calls'[1].part = RESPONSE]_vars

\* C27 (amended): with_query_parameter resolves no part: its engine call
\* carries the name, the index and the value and nothing else, before and
\* after will_respond_with alike, and the current part stays as it was
C27_QueryCallCarriesNoPart ==
    [][op'.fn \in {"with_query_parameter", "with_query_parameters"} =>
        /\ interaction_part' = interaction_part
        /\ \A k \in 1..Len(ffi_calls') :
              /\ DOMAIN ffi_calls'[k] = {"fn", "name", "index", "value"}
              /\ ffi_calls'[k].fn = "with_query_parameter_v2"]_vars

\* a with_query_parameter made after will_respond_with: the call is what it
\* would have been before
C27_Witness ==
    /\ interaction_part = RESPONSE
    /\ op.fn = "with_query_parameter"
    /\ raised = NoError
    /\ ffi_calls = <<[fn |-> "with_query_parameter_v2", name |-> <<"y">>,
                      index |-> 0, value |-> HeaderValue]>>

\* the int a string of decimal digits stands for
RECURSIVE int_of(_)
int_of(digits) ==
    IF digits = <<>>
    THEN 0
    ELSE LET last == digits[Len(digits)]
             d == CHOOSE k \in 0..9 : DecimalDigits[k + 1] = last
         IN  10 * int_of(SubSeq(digits, 1, Len(digits) - 1)) + d

\* C22: in every lifecycle state the server's URL string is the configured
\* transport, "://", the configured host, ":" and the decimal digits of the
\* current port, which are "0" when the server holds no handle and the port
\* the engine reports when it holds one; __enter__ and __exit__ leave host
\* and transport as they were
C22_UrlIsTransportHostPort ==
    /\ [](/\ Len(server_str) = 5
          /\ server_str[1] = server_transport
          /\ server_str[2] = "://"
          /\ server_str[3] = server_host
          /\ server_str[4] = ":"
          /\ server_handle = None => server_str[5] = <<"0">>
          /\ server_handle # None => int_of(server_str[5]) = server_handle[1])
    /\ [][server_op'.fn \in {"__enter__", "__exit__"} =>
            UNCHANGED <<server_host, server_transport>>]_vars

\* a server asked for on 127.0.0.1:8080 over https, started and left: its
\* URL string is https://127.0.0.1:0
C22_Witness ==
    /\ server_op.fn = "__exit__"
    /\ server_handle = None
    /\ servers_released > 0
    /\ server_port = 8080
    /\ server_str = <<"https", "://", "127.0.0.1", ":", <<"0">>>>

\* C13: for each query parameter name the indices passed to the engine by
\* with_query_parameter are 0, 1, 2, ... in call order, whatever was called
\* for other names and whatever header calls were made in between
C13_QueryIndexIsCallCount ==
    \A name \in DOMAIN param_passed :
        \A k \in 1..Len(param_passed[name]) : param_passed[name][k] = k - 1

\* "Xa" is sent with index 1 after it took index 0, with "xA" at index 0 and
\* a header "Xa" at header index 0 in between
C13_Witness ==
    /\ param_passed[<<"X", "a">>] = <<0, 1>>
    /\ param_passed[<<"x", "A">>] = <<0>>
    /\ header_passed[<<REQUEST, <<"x", "a">>>>] = <<0>>
    /\ op.fn = "with_query_parameter"
    /\ Len(ffi_calls) = 1
    /\ ffi_calls[1].name = <<"X", "a">>
    /\ ffi_calls[1].index = 1

---------------------------------------------------------------------------
(* The message interactions and upon_receiving *)

C15_AsyncAlwaysRequest ==
    interaction_class = Some("AsyncMessageInteraction") =>
        /\ message_interaction_part = REQUEST
        /\ (message_op.fn \in PartTakingOps /\ message_op.part = PartNone) =>
              \A k \in 1..Len(message_calls) : message_calls[k].part = REQUEST

\* with_plugin_contents without a part on an asynchronous message
\* interaction, the second interaction of the Pact, went to the Request
C15_Witness ==
    /\ interaction_class = Some("AsyncMessageInteraction")
    /\ Len(interactions) = 2
    /\ message_op = [fn |-> "with_plugin_contents", part |-> PartNone]
    /\ message_raised = NoError
    /\ Len(message_calls) = 1
    /\ message_calls[1].part = REQUEST

\* the class upon_receiving returns for an interaction argument, and the
\* engine call that registers it
KindTable ==
    [HTTP |-> [class |-> "HttpInteraction", fn |-> "new_interaction"],
     omitted |-> [class |-> "HttpInteraction", fn |-> "new_interaction"],
     Async |-> [class |-> "AsyncMessageInteraction",
                fn |-> "new_message_interaction"],
     Sync |-> [class |-> "SyncMessageInteraction",
               fn |-> "new_sync_message_interaction"]]

\* C16: upon_receiving returns an HttpInteraction for "HTTP" and for no
\* interaction argument, an AsyncMessageInteraction for "Async", a
\* SyncMessageInteraction for "Sync", each registered with the engine by the
\* call of its kind; for any other argument it raises ValueError, makes no
\* engine call and the engine's interactions stay as they were
C16_UponReceivingKinds ==
    [][message_op'.fn = "upon_receiving" =>
        LET kind == message_op'.interaction
        IN  /\ kind \in DOMAIN KindTable <=> message_raised' # ValueError
            /\ kind \notin DOMAIN KindTable =>
                  /\ message_calls' = <<>>
                  /\ interactions' = interactions
                  /\ interaction_class' = interaction_class
            /\ (kind \in DOMAIN KindTable /\ message_raised' = NoError) =>
                  /\ interaction_class' = Some(KindTable[kind].class)
                  /\ message_calls' = <<[fn |-> KindTable[kind].fn]>>
                  /\ interactions' = Append(interactions, KindTable[kind].fn)]_vars

\* upon_receiving with "http" was refused after one with no interaction
\* argument had returned an HttpInteraction
C16_Witness ==
    /\ message_op = [fn |-> "upon_receiving", interaction |-> "http"]
    /\ message_raised = ValueError
    /\ message_calls = <<>>
    /\ interactions = <<"new_interaction">>
    /\ interaction_class = Some("HttpInteraction")

---------------------------------------------------------------------------
(* given *)

\* the three shapes of the optional arguments of given
ValidShape(a) ==
    \/ a.name = None /\ a.value = None /\ a.parameters = None
    \/ a.name # None /\ a.value # None /\ a.parameters = None
    \/ a.name = None /\ a.value = None /\ a.parameters # None

EntriesOf(states, state) == {k \in 1..Len(states) : states[k].name = state}

ParamsOf(states, state) ==
    IF EntriesOf(states, state) = {}
    THEN <<>>
    ELSE states[CHOOSE k \in EntriesOf(states, state) : TRUE].params

\* the parameters the arguments of a given call stand for
Supplied(a) ==
    IF a.name # None THEN [k \in {a.name[1]} |-> a.value[1]]
    ELSE IF a.parameters = None THEN <<>>
    ELSE IF a.parameters[1].type = "dict" THEN a.parameters[1].items
    ELSE IF a.parameters[1].str.json THEN a.parameters[1].str.object
    ELSE [k \in {"value"} |-> a.parameters[1].str.text]

\* C5: a call of given raises ValueError exactly when its optional arguments
\* have none of the three shapes; it then makes no engine call and the
\* provider states stay as they were.  With one of the three shapes it makes
\* one engine call, and when that call returns the state is registered.
C5_GivenShapes ==
    [][given_op'.fn = "given" =>
        LET a == given_op'
        IN  /\ ValidShape(a) <=> given_raised' # ValueError
            /\ ~ValidShape(a) =>
                  given_calls' = <<>> /\ provider_states' = provider_states
            /\ ValidShape(a) =>
                  /\ Len(given_calls') = 1
                  /\ given_raised' = NoError =>
                        EntriesOf(provider_states', a.state) # {}]_vars

\* given with name, value and parameters all supplied was refused, after a
\* state had been registered
C5_Witness ==
    /\ given_op.fn = "given"
    /\ given_raised = ValueError
    /\ given_op.name # None /\ given_op.value # None
    /\ given_op.parameters # None
    /\ Len(provider_states) = 1

\* C6: a given call that returns leaves exactly one entry for its state, whose
\* parameters are those the entry had before updated with the ones supplied
\* (a supplied key replaces the earlier value); no state has two entries and
\* the entries of the other states are unchanged
C6_GivenMergesParameters ==
    [][(given_op'.fn = "given" /\ given_raised' = NoError) =>
        LET a == given_op'
        IN  /\ \A s \in States :
                  Cardinality(EntriesOf(provider_states', s)) <= 1
            /\ Cardinality(EntriesOf(provider_states', a.state)) = 1
            /\ ParamsOf(provider_states', a.state) =
                  Merged(ParamsOf(provider_states, a.state), Supplied(a))
            /\ \A s \in States \ {a.state} :
                  /\ EntriesOf(provider_states', s) = EntriesOf(provider_states, s)
                  /\ ParamsOf(provider_states', s) = ParamsOf(provider_states, s)]_vars

\* C20: given(state, parameters=s) with a str s that holds no JSON raises no
\* ValueError: it hands s to ffi.given_with_params, and when the engine
\* returns, the provider states are what given(state, name="value", value=s)
\* makes of the states before
C20_RawParametersAsValue ==
    [][(/\ given_op'.fn = "given"
        /\ given_op'.name = None /\ given_op'.value = None
        /\ given_op'.parameters # None
        /\ given_op'.parameters[1].type = "str"
        /\ ~given_op'.parameters[1].str.json) =>
            LET a == given_op'
                s == a.parameters[1].str
                other == given_call(a.state, Some("value"), Some(s.text), None)
            IN  /\ given_raised' # ValueError
                /\ Len(given_calls') = 1
                /\ given_calls'[1].fn = "given_with_params"
                /\ other.fn = "given_with_param"
                /\ given_raised' = NoError =>
                      provider_states' =
                          engine_given(provider_states, other.state,
                                       other.params)]_vars

\* a str that holds no JSON was given for "s2" and is its parameter "value"
C20_Witness ==
    /\ given_op.fn = "given"
    /\ given_op.state = "s2"
    /\ given_op.parameters # None
    /\ given_op.parameters[1].type = "str"
    /\ ~given_op.parameters[1].str.json
    /\ given_raised = NoError
    /\ Len(provider_states) = 1
    /\ provider_states[1] = [name |-> "s2", params |-> [k \in {"value"} |-> "x"]]

\* the entry of "s1" holds parameters from three calls, next to an entry of "s2"
C6_Witness ==
    /\ Len(provider_states) = 2
    /\ provider_states[1].name = "s1"
    /\ DOMAIN provider_states[1].params = {"a", "b", "value"}
    /\ provider_states[1].params["a"] = "2"
    /\ given_op.fn = "given"
    /\ given_op.state = "s1"
    /\ given_op.parameters # None
---------------------------------------------------------------------------
(* The mock server's scope *)

\* C17: serve returns a PactServer that holds no handle and whose port reads
\* 0, configured with the arguments; it makes no engine call, starts no mock
\* server and leaves the Pact as it was.  A server without a handle gets one
\* only by an __enter__ that returns, for which the engine starts a server.
C17_ServeStartsNothing ==
    [][/\ server_op'.fn = "__init__" =>
            /\ server_handle' = None
            /\ port' = 0
            /\ scope' = "Inert"
            /\ pact_calls' = <<>>
            /\ server_calls' = <<>>
            /\ pact_raised' = NoError
            /\ servers_started' = servers_started
            /\ <<server_host', server_port', server_transport'>> =
                  <<pact_op'.addr, pact_op'.port, pact_op'.transport>>
            /\ UNCHANGED <<pact_handle, consumer, provider, specification,
                           interactions>>
       /\ (server_handle = None /\ server_handle' # None) =>
            /\ server_op'.fn = "__enter__"
            /\ servers_started' = servers_started + 1]_vars

\* serve has returned a second server, for port 8080, after the first one
\* was entered and left; nothing is started for it
C17_Witness ==
    /\ pact_op.fn = "serve"
    /\ pact_op.port = 8080
    /\ server_op.fn = "__init__"
    /\ server_port = 8080
    /\ server_handle = None
    /\ port = 0
    /\ scope = "Inert"
    /\ servers_started = 1
    /\ servers_released = 1

\* C3: before the with block is entered and after it is left the port reads
\* 0; inside it, when port 0 was asked for, the port reads the non-zero port
\* the engine chose
C3_PortFollowsScope ==
    /\ scope \in {"Inert", "Released"} => port = 0
    /\ (scope = "Active" /\ server_port = 0) => (port # 0 /\ port \in EnginePorts)

\* inside the with block of a server that asked for port 0, after an earlier
\* block of the same server was left
C3_Witness ==
    /\ scope = "Active"
    /\ server_port = 0
    /\ port = 49153
    /\ servers_released = 1

\* C4: when __exit__ has run, with or without an exception from the with
\* block, the server holds no handle, and the exception it was given is what
\* reaches the caller
C4_ExitReleasesHandle ==
    server_op.fn = "__exit__" =>
        /\ server_handle = None
        /\ server_raised = IF server_op.exc # None THEN server_op.exc[1] ELSE NoError

\* the with block raised, __exit__ dropped the handle and the error went on
C4_Witness ==
    /\ server_op.fn = "__exit__"
    /\ server_op.exc = Some("AssertionError")
    /\ scope = "Released"
    /\ servers_released = 1
    /\ server_handle = None
    /\ server_raised = "AssertionError"

\* C8: write_file returns only inside the with block; called before the block
\* is entered or after it is left it raises RuntimeError, creates no
\* directory and asks the engine for no write
C8_WriteFileNeedsActiveServer ==
    [][server_op'.fn = "write_file" =>
        /\ server_raised' = NoError => scope = "Active"
        /\ scope # "Active" =>
              /\ server_raised' = RuntimeError
              /\ directory_state' = directory_state
              /\ pact_writes' = pact_writes]_vars

\* write_file on a server whose block was left: refused, the missing
\* directory still missing
C8_Witness ==
    /\ server_op.fn = "write_file"
    /\ server_op.directory = Some("out")
    /\ scope = "Released"
    /\ server_raised = RuntimeError
    /\ directory_state = "missing"
    /\ pact_writes = 0

\* C18: write_file with a directory argument on a server that holds a
\* handle: when nothing is at the path, with or without a parent directory,
\* the directory is there afterwards and the engine is asked to write into
\* it, whether or not the engine then succeeds; when a file is at the path
\* the call raises ValueError, asks the engine for nothing and changes
\* nothing
C18_WriteFileDirectory ==
    [][(server_op'.fn = "write_file" /\ server_handle # None
            /\ server_op'.directory # None) =>
        /\ directory_state \in {"missing", "no_parent"} =>
              /\ directory_state' = "dir"
              /\ server_calls' =
                    <<[fn |-> "write_pact_file",
                       directory |-> server_op'.directory,
                       overwrite |-> server_op'.overwrite]>>
              /\ server_raised' \in {NoError, EngineError}
        /\ directory_state = "file" =>
              /\ server_raised' = ValueError
              /\ server_calls' = <<>>
              /\ pact_writes' = pact_writes
              /\ directory_state' = "file"]_vars

\* write_file inside the with block found a file at the path and was
\* refused, after a write into the working directory had succeeded
C18_Witness ==
    /\ server_op.fn = "write_file"
    /\ server_op.directory = Some("out")
    /\ scope = "Active"
    /\ server_handle # None
    /\ directory_state = "file"
    /\ server_raised = ValueError
    /\ server_calls = <<>>
    /\ pact_writes = 1

\* C19: every handle an __enter__ obtained is let go of once and never
\* twice: the handles let go of are the handles obtained, less the one held.
\* When __exit__ has run no handle is held and all of them are let go of.
\* An __exit__ on a server that holds no handle changes nothing of the
\* server, asks the engine for nothing and raises nothing of its own.
C19_ReleaseOnceAndIdempotent ==
    [][/\ servers_started' =
            servers_released' + (IF server_handle' # None THEN 1 ELSE 0)
       /\ server_op'.fn = "__exit__" =>
            /\ server_handle' = None
            /\ servers_released' = servers_started'
            /\ servers_released' =
                  servers_released + (IF server_handle # None THEN 1 ELSE 0)
       /\ (server_op'.fn = "__exit__" /\ server_handle = None) =>
            /\ UNCHANGED <<server_handle, server_host, server_port,
                           server_transport, servers_started,
                           servers_released, directory_state, pact_writes>>
            /\ server_calls' = <<>>
            /\ server_raised' =
                  IF body_exc # None THEN body_exc[1] ELSE NoError]_vars

\* two handles were obtained and both are let go of, the last by an
\* __exit__ that returned normally
C19_Witness ==
    /\ server_op = [fn |-> "__exit__", exc |-> None]
    /\ server_handle = None
    /\ servers_started = 2
    /\ servers_released = 2
    /\ server_raised = NoError

\* C9 (as stated): once the with block of a server has been left, the server
\* never holds a handle again
C9_Original_NoReentry ==
    [][scope = "Released" => server_handle' = None]_vars

\* C9 (amended): a server whose with block has been left holds a handle again
\* only through a new __enter__ that returns, for which the engine starts one
\* more mock server; __exit__ and write_file never give it a handle
C9_ActiveAgainOnlyByEnter ==
    [][(scope = "Released" /\ server_handle' # None) =>
        /\ server_op'.fn = "__enter__"
        /\ server_raised' = NoError
        /\ servers_started' = servers_started + 1]_vars

\* the server is inside its second with block, the first one left
C9_Witness ==
    /\ scope = "Active"
    /\ server_handle # None
    /\ servers_started = 2
    /\ servers_released = 1
    /\ server_op.fn = "__enter__"

---------------------------------------------------------------------------
(* Pact *)

\* C7: Pact(consumer, provider) raises ValueError exactly when one of the two
\* names is empty, and then no engine call is made and there is no handle;
\* with both names non-empty it asks the engine for a pact, and when that
\* returns the Pact holds the handle and the two names
C7_PactNeedsNames ==
    pact_op.fn = "__init__" =>
        LET empty == pact_op.consumer = "" \/ pact_op.provider = ""
        IN  /\ empty <=> pact_raised = ValueError
            /\ empty => (pact_calls = <<>> /\ pact_handle = None)
            /\ ~empty =>
                  /\ Len(pact_calls) = 1
                  /\ pact_raised = NoError =>
                        /\ pact_handle # None
                        /\ consumer = Some(pact_op.consumer)
                        /\ provider = Some(pact_op.provider)

\* a Pact with a consumer but an empty provider name was refused
C7_Witness ==
    /\ pact_op.fn = "__init__"
    /\ pact_op.consumer = "consumer"
    /\ pact_op.provider = ""
    /\ pact_raised = ValueError
    /\ pact_calls = <<>>
    /\ pact_handle = None

\* a version string without one leading "v" or "V"
StripV(s) == IF Len(s) > 0 /\ s[1] \in {"v", "V"} THEN Tail(s) ELSE s

\* two characters that are the same up to letter case and "." versus "_"
SameChar(c, d) == LowerChar(c) = LowerChar(d) \/ {c, d} \subseteq {".", "_"}

\* two version strings that differ only in letter case, in a leading "v" and
\* in "." versus "_"
SameVersionText(s, t) ==
    /\ Len(StripV(s)) = Len(StripV(t))
    /\ \A k \in 1..Len(StripV(s)) : SameChar(StripV(s)[k], StripV(t)[k])

\* C10: what with_specification did with a version string is what it does
\* with every string that differs from it only in letter case, in a leading
\* "v" and in "." versus "_": both name the same member of PactSpecification,
\* which is what the engine is given, or both name none (KeyError)
C10_SameVersionTextSameMember ==
    (pact_op.fn = "with_specification" /\ pact_op.version.type = "str") =>
        \A t \in VersionStrings :
            SameVersionText(pact_op.version.value, t) =>
                LET other == resolve_version([type |-> "str", value |-> t])
                IN  IF pact_raised = KeyError
                    THEN other.raised = KeyError
                    ELSE /\ other.raised = NoError
                         /\ pact_calls = <<[fn |-> "with_specification",
                                            version |-> other.member]>>

\* "1.1" was resolved to V1_1 and the engine holds it
C10_Witness ==
    /\ pact_op.fn = "with_specification"
    /\ pact_op.version = [type |-> "str", value |-> <<"1", ".", "1">>]
    /\ pact_raised = NoError
    /\ specification = Some(<<"V", "1", "_", "1">>)

\* a version string that names no member of PactSpecification, however its
\* letter case, leading "v" and separators are read
NamesNoVersion(s) == \A m \in PactSpecification : ~SameVersionText(s, m)

\* C11: with_specification with a string that names no specification version
\* raises (the KeyError of the lookup) in the call itself, asks the engine
\* for nothing and leaves the specification version as it was
C11_UnknownVersionFailsUnchanged ==
    [][(/\ pact_op'.fn = "with_specification"
        /\ pact_op'.version.type = "str"
        /\ NamesNoVersion(pact_op'.version.value)) =>
            /\ pact_raised' = KeyError
            /\ pact_calls' = <<>>
            /\ specification' = specification
            /\ pact_handle' = pact_handle]_vars

\* "v_" was refused while the engine holds V1 from an earlier call
C11_Witness ==
    /\ pact_op.fn = "with_specification"
    /\ pact_op.version = [type |-> "str", value |-> <<"v", "_">>]
    /\ pact_raised = KeyError
    /\ pact_calls = <<>>
    /\ specification = Some(<<"V", "1">>)

---------------------------------------------------------------------------
(* Interactions side by side, chains and threads *)

\* C28: the counters of an interaction upon_receiving has just returned are
\* all 0 and its current part is Request; a call on one interaction leaves
\* the current part and every header and query counter of each other
\* interaction as they were, in whatever order the calls on the two come
C28_CountersBelongToOneInteraction ==
    [][/\ Len(builders') >= Len(builders)
       /\ \A j \in 1..Len(builders) :
             j # builder_op'.self => builders'[j] = builders[j]
       /\ Len(builders') > Len(builders) =>
             LET new == builders'[Len(builders')]
             IN  /\ Len(builders') = Len(builders) + 1
                 /\ builder_op'.fn = "upon_receiving"
                 /\ new.interaction_part = REQUEST
                 /\ \A k \in DOMAIN new.request_indices :
                       new.request_indices[k] = 0
                 /\ \A n \in DOMAIN new.parameter_indices :
                       new.parameter_indices[n] = 0]_vars

\* the second interaction's with_header for "Xa" took index 0 of its
\* Request counter after the first interaction, already on its Response,
\* had counted an "Xa" header of its own
C28_Witness ==
    /\ Len(builders) = 2
    /\ builders[1].interaction_part = RESPONSE
    /\ builders[1].request_indices[<<RESPONSE, <<"x", "a">>>>] = 1
    /\ builders[2].interaction_part = REQUEST
    /\ builders[2].request_indices[<<REQUEST, <<"x", "a">>>>] = 1
    /\ builders[2].request_indices[<<RESPONSE, <<"x", "a">>>>] = 0
    /\ builder_op = [fn |-> "with_header", self |-> 2]
    /\ builder_calls[1].index = 0
    /\ builder_calls[1].part = REQUEST
    /\ builder_raised = NoError

\* C21: every mutator call of a chain that returns, returns the interaction
\* it was called on, so every call of the chain is made on the interaction
\* the chain started from
C21_MutatorsReturnSelf ==
    /\ \A k \in 1..Len(chain_log) :
          /\ chain_log[k].self = chain_log[1].self
          /\ chain_log[k].returned # None =>
                chain_log[k].returned = Some(chain_log[k].self)
    /\ (chain_log # <<>> /\ chain_self # None) =>
          chain_self = Some(chain_log[1].self)

\* interaction_2.will_respond_with(..).with_header(..) evaluated to
\* interaction_2
C21_Witness ==
    /\ Len(chain_log) = 2
    /\ chain_log[1].fn = "will_respond_with"
    /\ chain_log[1].self = "interaction_2"
    /\ chain_log[2].fn = "with_header"
    /\ chain_log[2].returned = Some("interaction_2")
    /\ chain_self = Some("interaction_2")

\* C30: with_header takes its index in one step, which leaves the counter
\* as it was, and increments the counter in later steps, from a value
\* loaded after the index was taken; the index it passes to the engine is
\* the one it took, whatever the other thread has stored since.  A thread
\* that is alone on the interaction passes 0, 1, 2, ... in order.
C30_ReadAndIncrementAreSeparate ==
    /\ [][\A t \in RaceThreads :
            /\ (race_pc[t] = "read" /\ race_pc'[t] = "load") =>
                  /\ race_index'[t] = race_counter
                  /\ race_counter' = race_counter
            /\ (race_pc[t] = "store" /\ race_pc'[t] = "call") =>
                  /\ race_counter' = race_loaded[t] + 1
                  /\ race_index'[t] = race_index[t]
            /\ (race_pc[t] = "call" /\ race_pc'[t] = "idle") =>
                  race_passed' =
                     Append(race_passed,
                            [thread |-> t, index |-> race_index[t]])]_vars
    /\ [](\A t \in RaceThreads :
            (\A u \in RaceThreads \ {t} : race_started[u] = 0) =>
               \A k \in 1..Len(race_passed) : race_passed[k].index = k - 1)

\* the two threads' first calls have both passed index 0
C30_Witness ==
    /\ Len(race_passed) = 2
    /\ race_passed[1].thread # race_passed[2].thread
    /\ race_passed[1].index = 0
    /\ race_passed[2].index = 0

---------------------------------------------------------------------------
(* A mock server that does not start; the keys of the query counters *)

\* C31: when the engine fails to start the mock server in __enter__, the
\* error reaches the caller and the server is as it was before: a server
\* that held no handle holds none, its scope state is what it was (Inert
\* for a server never entered), its port reads 0, and a write_file that
\* follows raises RuntimeError without asking the engine for anything
C31_FailedEnterLeavesServerInert ==
    /\ [][(server_op'.fn = "__enter__" /\ server_raised' # NoError) =>
            /\ server_raised' = EngineError
            /\ UNCHANGED <<server_handle, scope, servers_started,
                           servers_released, pact_writes>>
            /\ server_handle = None => port' = 0]_vars
    /\ [][(/\ server_op.fn = "__enter__"
           /\ server_raised = EngineError
           /\ server_handle = None
           /\ server_op'.fn = "write_file") =>
            /\ server_raised' = RuntimeError
            /\ server_calls' = <<>>
            /\ UNCHANGED <<server_handle, scope, pact_writes,
                           directory_state>>]_vars

\* the engine could not start a server asked for on port 8080: the server
\* was never entered, holds no handle and reads port 0
C31_Witness ==
    /\ server_op.fn = "__enter__"
    /\ server_raised = EngineError
    /\ scope = "Inert"
    /\ server_handle = None
    /\ servers_started = 0
    /\ server_port = 8080
    /\ port = 0

\* C32: with_query_parameter draws its index from the counter of the name
\* exactly as given and increments that counter alone, whatever the current
\* part: "Xa" and "xA" are counted apart, no header counter moves, and no
\* other method, will_respond_with included, changes a query counter
C32_QueryCountersKeyedByExactName ==
    [][/\ (op'.fn = "with_query_parameter" /\ ffi_calls' # <<>>) =>
            LET c == ffi_calls'[1]
            IN  /\ c.index = parameter_indices[c.name]
                /\ parameter_indices' =
                      [parameter_indices EXCEPT ![c.name] = @ + 1]
                /\ request_indices' = request_indices
       /\ op'.fn \notin {"with_query_parameter", "with_query_parameters"} =>
            parameter_indices' = parameter_indices]_vars

\* will_respond_with has returned and the counters of "Xa" and "xA" stand
\* where the calls before it left them, at 2 and 1
C32_Witness ==
    /\ op.fn = "will_respond_with"
    /\ raised = NoError
    /\ interaction_part = RESPONSE
    /\ parameter_indices[<<"X", "a">>] = 2
    /\ parameter_indices[<<"x", "A">>] = 1
    /\ parameter_indices[<<"y">>] = 0

====
